---- MODULE Spec2Model ----
(***************************************************************************)
(* Model of goliac's apply scheduler (internal/goliac_server.go) and of    *)
(* its reconciliation engine (internal/engine/goliac_reconciliator.go).    *)
(*                                                                         *)
(* SchedSpec : concurrent triggerApply / serveApply callers.               *)
(* Spec      : Reconciliate runs (users, teams, repositories, rulesets).   *)
(***************************************************************************)
EXTENDS Integers, Sequences, FiniteSets, Bags, TLC

(***************************************************************************)
(* Bounds of the model                                                     *)
(***************************************************************************)
\* number of webhook / REST goroutines next to the tick loop
NumTriggers == 2
\* the logical clock stops advancing here
MaxTime == 1
\* config.Config.ServerApplyInterval, in seconds
ApplyInterval == 1
\* number of declared user names
MaxUsers == 2
\* number of consecutive Reconciliate runs on the same declared state
MaxRuns == 2

(***************************************************************************)
(* Scheduler state: GoliacServerImpl and its callers                       *)
(***************************************************************************)
VARIABLES
    applyCurrent,   \* g.applyCurrent
    applyLobby,     \* g.applyLobby
    ready,          \* g.ready
    lastSyncTime,   \* g.lastSyncTime (NoTime = nil)
    lastSyncError,  \* g.lastSyncError (NoErr = nil)
    syncInterval,   \* g.syncInterval
    cfgGit,         \* config.Config.ServerGitRepository / ServerGitBranch
    stopCh,         \* stopCh of Serve: TRUE once it is closed
    closedBy,       \* the goroutines of Serve that have executed close(stopCh)
    now,            \* time.Now()
    pc,             \* position of every caller
    ret,            \* (err, applied) returned by serveApply
    prevErr,        \* local previousError of triggerApply
    notified        \* whether the last step sent a notification

schedVars == <<applyCurrent, applyLobby, ready, lastSyncTime, lastSyncError,
               syncInterval, cfgGit, stopCh, closedBy, now, pc, ret, prevErr, notified>>

\* the state of the reconciliation engine
VARIABLES
    local,      \* GoliacLocal: the declared state
    conf,       \* r.repoconfig, r.executor (attached or nil), dryrun, teamsreponame
    remote,     \* the organization as the Executor leaves it (GoliacRemote)
    mirror,     \* MutableGoliacRemoteImpl of the current run
    calls,      \* the mediator calls of the current run, in order
    phase,      \* position inside Reconciliate
    result,     \* the error Reconciliate returns (NoErr = nil)
    run         \* number of the current Reconciliate run

recVars == <<local, conf, remote, mirror, calls, phase, result, run>>
vars == <<schedVars, recVars>>

NoErr == "nil"
NoTime == -1
TickLoop == 0
Callers == 0..NumTriggers
Triggers == Callers \ {TickLoop}
\* errors goliac.Apply can return
ApplyErrs == {"apply: e1", "apply: e2"}
ErrNoRepo == "GOLIAC_SERVER_GIT_REPOSITORY env variable not set"
ErrNoBranch == "GOLIAC_SERVER_GIT_BRANCH env variable not set"
GitConfigs == {"set", "norepo", "nobranch"}
NoRet == [err |-> NoErr, applied |-> FALSE]

\* callers parked in applyLobbyCond.Wait()
Waiting == {p \in Callers : pc[p] = "wait"}
\* callers signalled but not yet back in possession of the mutex
Woken == {p \in Callers : pc[p] = "woken"}
\* callers between the unlock at the end of the entry section and the deferred release
Running == {p \in Callers : pc[p] \in {"run", "exit"}}

SchedInit ==
    /\ applyCurrent = FALSE
    /\ applyLobby = FALSE
    /\ ready = FALSE
    /\ lastSyncTime = NoTime
    /\ lastSyncError = NoErr
    /\ syncInterval = 0
    /\ cfgGit \in GitConfigs
    /\ stopCh = FALSE
    /\ closedBy = {}
    /\ now = 0
    /\ pc = [p \in Callers |-> IF p = TickLoop THEN "tick" ELSE "idle"]
    /\ ret = [p \in Callers |-> NoRet]
    /\ prevErr = [p \in Callers |-> NoErr]
    /\ notified = FALSE

\* where a caller goes when triggerApply returns
Rest(p) == IF p = TickLoop THEN "tick" ELSE "idle"

\* time passes
Tick ==
    /\ now < MaxTime
    /\ now' = now + 1
    /\ notified' = FALSE
    /\ UNCHANGED <<applyCurrent, applyLobby, ready, lastSyncTime, lastSyncError,
                   syncInterval, cfgGit, stopCh, closedBy, pc, ret, prevErr,
                   recVars>>

\* the tick goroutine of Serve: g.syncInterval--, sleep, test; when the test
\* succeeds the loop calls triggerApply(false)
TickStep ==
    /\ pc[TickLoop] = "tick"
    /\ ~stopCh
    /\ syncInterval' = syncInterval - 1
    /\ pc' = [pc EXCEPT ![TickLoop] = IF syncInterval' <= 0 THEN "call" ELSE "tick"]
    /\ notified' = FALSE
    /\ UNCHANGED <<applyCurrent, applyLobby, ready, lastSyncTime, lastSyncError,
                   cfgGit, stopCh, closedBy, now, ret, prevErr,
                   recVars>>

\* the webhook callback (triggerApply(false)) or the goroutine started by
\* PostResync (triggerApply(true)); forceresync is only handed on to goliac.Apply
Trigger(p) ==
    /\ p \in Triggers
    /\ pc[p] = "idle"
    /\ pc' = [pc EXCEPT ![p] = "call"]
    /\ notified' = FALSE
    /\ UNCHANGED <<applyCurrent, applyLobby, ready, lastSyncTime, lastSyncError,
                   syncInterval, cfgGit, stopCh, closedBy, now, ret, prevErr,
                   recVars>>

\* Enter without the test of g.applyCurrent: every caller that finds the lobby
\* free starts running
Enter_NoCurrentTest(p) ==
    /\ pc[p] = "call"
    /\ IF applyLobby
          THEN /\ pc' = [pc EXCEPT ![p] = "returned"]
               /\ ret' = [ret EXCEPT ![p] = [err |-> NoErr, applied |-> FALSE]]
               /\ UNCHANGED <<applyCurrent, applyLobby>>
          ELSE /\ applyCurrent' = TRUE
               /\ pc' = [pc EXCEPT ![p] = "run"]
               /\ UNCHANGED <<applyLobby, ret>>
    /\ notified' = FALSE
    /\ UNCHANGED <<ready, lastSyncTime, lastSyncError, syncInterval, cfgGit, stopCh, closedBy, now,
                   prevErr,
                   recVars>>

\* serveApply, from Lock() to the Unlock() or to the first Wait()
Enter(p) ==
    /\ pc[p] = "call"
    /\ IF applyLobby
          THEN /\ pc' = [pc EXCEPT ![p] = "returned"]
               /\ ret' = [ret EXCEPT ![p] = [err |-> NoErr, applied |-> FALSE]]
               /\ UNCHANGED <<applyCurrent, applyLobby>>
          ELSE IF ~applyCurrent
                  THEN /\ applyCurrent' = TRUE
                       /\ pc' = [pc EXCEPT ![p] = "run"]
                       /\ UNCHANGED <<applyLobby, ret>>
                  ELSE /\ applyLobby' = TRUE
                       /\ pc' = [pc EXCEPT ![p] = "wait"]
                       /\ UNCHANGED <<applyCurrent, ret>>
    /\ notified' = FALSE
    /\ UNCHANGED <<ready, lastSyncTime, lastSyncError, syncInterval, cfgGit, stopCh, closedBy, now,
                   prevErr,
                   recVars>>

\* Wait() returns with the mutex held: the loop tests g.applyLobby again
Wakeup(p) ==
    /\ pc[p] = "woken"
    /\ pc' = [pc EXCEPT ![p] = IF applyLobby THEN "wait" ELSE "run"]
    /\ notified' = FALSE
    /\ UNCHANGED <<applyCurrent, applyLobby, ready, lastSyncTime, lastSyncError,
                   syncInterval, cfgGit, stopCh, closedBy, now, ret, prevErr,
                   recVars>>

\* Run with the release written only before the last return statement instead
\* of deferred: the error returns leave serveApply without it
Run_ReleaseNotDeferred(p) ==
    /\ pc[p] = "run"
    /\ \/ /\ cfgGit = "norepo"
          /\ ret' = [ret EXCEPT ![p] = [err |-> ErrNoRepo, applied |-> FALSE]]
          /\ pc' = [pc EXCEPT ![p] = "returned"]
          /\ UNCHANGED ready
       \/ /\ cfgGit = "nobranch"
          /\ ret' = [ret EXCEPT ![p] = [err |-> ErrNoBranch, applied |-> FALSE]]
          /\ pc' = [pc EXCEPT ![p] = "returned"]
          /\ UNCHANGED ready
       \/ /\ cfgGit = "set"
          /\ ready' = TRUE
          /\ pc' = [pc EXCEPT ![p] = "returned"]
          /\ \E e \in ApplyErrs :
                ret' = [ret EXCEPT ![p] = [err |-> e, applied |-> FALSE]]
       \/ /\ cfgGit = "set"
          /\ ready' = TRUE
          /\ pc' = [pc EXCEPT ![p] = "exit"]
          /\ ret' = [ret EXCEPT ![p] = [err |-> NoErr, applied |-> TRUE]]
    /\ notified' = FALSE
    /\ UNCHANGED <<applyCurrent, applyLobby, lastSyncTime, lastSyncError,
                   syncInterval, cfgGit, stopCh, closedBy, now, prevErr,
                   recVars>>

\* the body of serveApply after the entry section, up to its return statement
Run(p) ==
    /\ pc[p] = "run"
    /\ \/ /\ cfgGit = "norepo"
          /\ ret' = [ret EXCEPT ![p] = [err |-> ErrNoRepo, applied |-> FALSE]]
          /\ UNCHANGED ready
       \/ /\ cfgGit = "nobranch"
          /\ ret' = [ret EXCEPT ![p] = [err |-> ErrNoBranch, applied |-> FALSE]]
          /\ UNCHANGED ready
       \/ /\ cfgGit = "set"
          /\ ready' = TRUE
          /\ \E e \in ApplyErrs :
                ret' = [ret EXCEPT ![p] = [err |-> e, applied |-> FALSE]]
       \/ /\ cfgGit = "set"
          /\ ready' = TRUE
          /\ ret' = [ret EXCEPT ![p] = [err |-> NoErr, applied |-> TRUE]]
    /\ pc' = [pc EXCEPT ![p] = "exit"]
    /\ notified' = FALSE
    /\ UNCHANGED <<applyCurrent, applyLobby, lastSyncTime, lastSyncError,
                   syncInterval, cfgGit, stopCh, closedBy, now, prevErr,
                   recVars>>

\* applyLobbyCond.Signal(): wakes one parked goroutine, if there is one
Signal(pcs) ==
    IF \E w \in Callers : pcs[w] = "wait"
       THEN {[pcs EXCEPT ![w] = "woken"] : w \in {x \in Callers : pcs[x] = "wait"}}
       ELSE {pcs}

\* the deferred function without its else branch: applyCurrent is never cleared
Release_CurrentKept(p) ==
    /\ pc[p] = "exit"
    /\ IF applyLobby
          THEN /\ applyLobby' = FALSE
               /\ pc' \in Signal([pc EXCEPT ![p] = "returned"])
               /\ UNCHANGED applyCurrent
          ELSE /\ pc' = [pc EXCEPT ![p] = "returned"]
               /\ UNCHANGED <<applyCurrent, applyLobby>>
    /\ notified' = FALSE
    /\ UNCHANGED <<ready, lastSyncTime, lastSyncError, syncInterval, cfgGit, stopCh, closedBy, now,
                   ret, prevErr,
                   recVars>>

\* the deferred function of serveApply
Release(p) ==
    /\ pc[p] = "exit"
    /\ IF applyLobby
          THEN /\ applyLobby' = FALSE
               /\ pc' \in Signal([pc EXCEPT ![p] = "returned"])
               /\ UNCHANGED applyCurrent
          ELSE /\ applyCurrent' = FALSE
               /\ pc' = [pc EXCEPT ![p] = "returned"]
               /\ UNCHANGED applyLobby
    /\ notified' = FALSE
    /\ UNCHANGED <<ready, lastSyncTime, lastSyncError, syncInterval, cfgGit, stopCh, closedBy, now,
                   ret, prevErr,
                   recVars>>

\* the test of triggerApply with `!applied` written as `applied`
IsSkipped_Inverted(r) == r.applied /\ r.err = NoErr

\* triggerApply: "the run was skipped"
IsSkipped(r) == ~r.applied /\ r.err = NoErr

\* triggerApply after serveApply returned: the skipped branch, or, in the other
\* branch, g.lastSyncTime = &now and previousError := g.lastSyncError
Returned(p) ==
    /\ pc[p] = "returned"
    /\ IF IsSkipped(ret[p])
          THEN /\ syncInterval' = ApplyInterval
               /\ pc' = [pc EXCEPT ![p] = Rest(p)]
               /\ ret' = [ret EXCEPT ![p] = NoRet]
               /\ UNCHANGED <<lastSyncTime, prevErr>>
          ELSE /\ lastSyncTime' = now
               /\ prevErr' = [prevErr EXCEPT ![p] = lastSyncError]
               /\ pc' = [pc EXCEPT ![p] = "record"]
               /\ UNCHANGED <<syncInterval, ret>>
    /\ notified' = FALSE
    /\ UNCHANGED <<applyCurrent, applyLobby, ready, lastSyncError, cfgGit, stopCh, closedBy, now,
                   recVars>>

\* "log the error only if it's a new one"
IsNewError(err, previousError) ==
    err # NoErr /\ (previousError = NoErr \/ err # previousError)

\* Record storing only failures: a successful run leaves g.lastSyncError alone
Record_ErrorsOnly(p) ==
    /\ pc[p] = "record"
    /\ lastSyncError' = IF ret[p].err # NoErr THEN ret[p].err ELSE lastSyncError
    /\ notified' = IsNewError(ret[p].err, prevErr[p])
    /\ syncInterval' = ApplyInterval
    /\ pc' = [pc EXCEPT ![p] = Rest(p)]
    /\ ret' = [ret EXCEPT ![p] = NoRet]
    /\ prevErr' = [prevErr EXCEPT ![p] = NoErr]
    /\ UNCHANGED <<applyCurrent, applyLobby, ready, lastSyncTime, cfgGit, stopCh, closedBy, now,
                   recVars>>

\* triggerApply: g.lastSyncError = err, the notification, g.syncInterval
Record(p) ==
    /\ pc[p] = "record"
    /\ lastSyncError' = ret[p].err
    /\ notified' = IsNewError(ret[p].err, prevErr[p])
    /\ syncInterval' = ApplyInterval
    /\ pc' = [pc EXCEPT ![p] = Rest(p)]
    /\ ret' = [ret EXCEPT ![p] = NoRet]
    /\ prevErr' = [prevErr EXCEPT ![p] = NoErr]
    /\ UNCHANGED <<applyCurrent, applyLobby, ready, lastSyncTime, cfgGit, stopCh, closedBy, now,
                   recVars>>


\* the goroutine of the REST server: restserver.Serve() returns an error while
\* the server is up, logrus.Error(err) and close(stopCh). (The goroutine of the
\* webhook server never reaches its close(stopCh): logrus.Fatal exits first.)
RESTFailure ==
    /\ ~stopCh
    /\ stopCh' = TRUE
    /\ closedBy' = closedBy \cup {"rest"}
    /\ notified' = FALSE
    /\ UNCHANGED <<applyCurrent, applyLobby, ready, lastSyncTime, lastSyncError,
                   syncInterval, cfgGit, now, pc, ret, prevErr,
                   recVars>>

\* Serve after an OS termination signal (SIGINT, SIGTERM): <-signalCh returns
\* and the main goroutine executes close(stopCh), whatever the state of the
\* channel; closing a closed channel panics
OSSignal ==
    /\ "main" \notin closedBy
    /\ stopCh' = TRUE
    /\ closedBy' = closedBy \cup {"main"}
    /\ notified' = FALSE
    /\ UNCHANGED <<applyCurrent, applyLobby, ready, lastSyncTime, lastSyncError,
                   syncInterval, cfgGit, now, pc, ret, prevErr,
                   recVars>>

\* the tick goroutine at its select with stopCh closed: it shuts the servers
\* down and returns, wg.Wait() and Serve return
TickExit ==
    /\ pc[TickLoop] = "tick"
    /\ stopCh
    /\ pc' = [pc EXCEPT ![TickLoop] = "exited"]
    /\ notified' = FALSE
    /\ UNCHANGED <<applyCurrent, applyLobby, ready, lastSyncTime, lastSyncError,
                   syncInterval, cfgGit, stopCh, closedBy, now, ret, prevErr,
                   recVars>>

\* the fields of the scheduler a caller is about to read or write outside
\* applyLobbyMutex: g.syncInterval-- in the tick loop, and the statements of
\* triggerApply after serveApply has returned
UnlockedAccesses(p) ==
    CASE pc[p] = "tick" -> {"syncInterval"}
      [] pc[p] = "returned" ->
            IF IsSkipped(ret[p]) THEN {"syncInterval"}
            ELSE {"lastSyncTime", "lastSyncError"}
      [] pc[p] = "record" -> {"lastSyncError", "syncInterval"}
      [] OTHER -> {}
(***************************************************************************)
(* Reconciliation engine: declared state, live state, mirror               *)
(***************************************************************************)
\* ---- universes ----
AllUserNames == <<"alice", "bob", "carol">>
UserNames == {AllUserNames[i] : i \in 1..MaxUsers}
GithubIDs == {"gh-" \o n : n \in UserNames}
ExternalNames == {"xu"}
ExternalIDs == {"gh-xu"}
TeamNames == {"Eng", "eng", "eng-owners"}
RepoNames == {"svc-a", "Teams"}
\* the zero value of a Go string
ZeroString == ""

\* github.com/gosimple/slug Make on the names of the model: lower case, one
\* dash for every run of other characters
SlugTable == [Eng |-> "eng", Teams |-> "teams"]
Slug(n) == IF n \in DOMAIN SlugTable THEN SlugTable[n] ELSE n

\* ---- maps and lists ----
EmptyMap == <<>>
Put(f, k, v) == [x \in DOMAIN f \cup {k} |-> IF x = k THEN v ELSE f[x]]
Del(f, k) == [x \in DOMAIN f \ {k} |-> f[x]]
Get(f, k, d) == IF k \in DOMAIN f THEN f[k] ELSE d
\* every order in which a range loop can visit the keys S of a map
Perms(S) ==
    {s \in [1..Cardinality(S) -> S] :
        \A i, j \in 1..Cardinality(S) : i # j => s[i] # s[j]}
\* a []string up to the order of its elements
List(S) == SetToBag(S)
Elems(l) == BagToSet(l)
RECURSIVE Flatten(_)
Flatten(ss) == IF ss = <<>> THEN <<>> ELSE Head(ss) \o Flatten(Tail(ss))

\* entity.StringArrayEquivalent(a, b): equal as multisets; otherwise what to
\* remove (in b only) and what to add (in a only)
StringArrayEquivalent(a, b) ==
    [res |-> a = b, toRemove |-> Elems(b) \ Elems(a), toAdd |-> Elems(a) \ Elems(b)]

\* ---- mediator operations ----
Op(name, args) == [name |-> name, args |-> args]
UserOps == {"AddUserToOrg", "RemoveUserFromOrg"}
TeamOps == {"CreateTeam", "DeleteTeam", "UpdateTeamAddMember", "UpdateTeamRemoveMember"}
RepoOps == {"CreateRepository", "DeleteRepository", "UpdateRepositoryUpdatePrivate",
            "UpdateRepositoryUpdateArchived", "UpdateRepositoryAddTeamAccess",
            "UpdateRepositoryUpdateTeamAccess", "UpdateRepositoryRemoveTeamAccess",
            "UpdateRepositorySetExternalUser", "UpdateRepositoryRemoveExternalUser"}
RulesetOps == {"AddRuleset", "UpdateRuleset", "DeleteRuleset"}
EnvelopeOps == {"Begin", "Commit", "Rollback"}
DestructiveOps == {"RemoveUserFromOrg", "DeleteTeam", "DeleteRepository", "DeleteRuleset"}

\* ---- live state: GoliacRemote and its mutable mirror ----
\* users: set of ids; teams: slug -> team; repos: name -> repository;
\* teamRepos: team slug -> (repository -> permission); rulesets: name -> ruleset
EmptyLive ==
    [users |-> {}, teams |-> EmptyMap, repos |-> EmptyMap, teamRepos |-> EmptyMap,
     rulesets |-> EmptyMap, enterprise |-> FALSE]

NewTeam(slug, members) == [name |-> slug, slug |-> slug, members |-> members]
NewRepo(public) == [isPrivate |-> ~public, isArchived |-> FALSE, externalUsers |-> EmptyMap]
TeamPermission(permission) == IF permission = "push" THEN "WRITE" ELSE "READ"

\* the access of team t to repository r becomes p
SetTeamAccess(tr, t, r, p) == Put(tr, t, Put(Get(tr, t, EmptyMap), r, p))
DropTeamAccess(tr, t, r) ==
    IF t \in DOMAIN tr THEN Put(tr, t, Del(tr[t], r)) ELSE tr
RECURSIVE GrantAll(_, _, _, _)
GrantAll(tr, ts, r, p) ==
    IF ts = {} THEN tr
    ELSE LET t == CHOOSE x \in ts : TRUE
         IN GrantAll(SetTeamAccess(tr, t, r, p), ts \ {t}, r, p)
\* the identifier a new ruleset gets from the platform
FreshId(rs) ==
    IF DOMAIN rs = {} THEN 1
    ELSE 1 + (CHOOSE m \in {rs[k].id : k \in DOMAIN rs} :
                 \A k \in DOMAIN rs : rs[k].id <= m)

\* what an operation does to a live state: the mutators of the mirror, and the
\* remote calls of an Executor that applies them faithfully
ApplyOp(s, o) ==
    LET a == o.args IN
    CASE o.name = "AddUserToOrg" -> [s EXCEPT !.users = @ \cup {a[1]}]
      [] o.name = "RemoveUserFromOrg" -> [s EXCEPT !.users = @ \ {a[1]}]
      [] o.name = "CreateTeam" -> [s EXCEPT !.teams = Put(@, a[1], NewTeam(a[1], a[3]))]
      [] o.name = "DeleteTeam" -> [s EXCEPT !.teams = Del(@, a[1])]
      [] o.name = "UpdateTeamAddMember" ->
            IF a[1] \in DOMAIN s.teams
               THEN [s EXCEPT !.teams[a[1]].members = @ \cup {a[2]}] ELSE s
      [] o.name = "UpdateTeamRemoveMember" ->
            IF a[1] \in DOMAIN s.teams
               THEN [s EXCEPT !.teams[a[1]].members = @ \ {a[2]}] ELSE s
      [] o.name = "CreateRepository" ->
            [s EXCEPT !.repos = Put(@, a[1], NewRepo(a[5])),
                      !.teamRepos = GrantAll(GrantAll(@, a[4], a[1], "READ"),
                                             a[3], a[1], "WRITE")]
      [] o.name = "DeleteRepository" ->
            [s EXCEPT !.repos = Del(@, a[1]),
                      !.teamRepos = [t \in DOMAIN @ |-> Del(@[t], a[1])]]
      [] o.name = "UpdateRepositoryUpdatePrivate" ->
            IF a[1] \in DOMAIN s.repos
               THEN [s EXCEPT !.repos[a[1]].isPrivate = a[2]] ELSE s
      [] o.name = "UpdateRepositoryUpdateArchived" ->
            IF a[1] \in DOMAIN s.repos
               THEN [s EXCEPT !.repos[a[1]].isArchived = a[2]] ELSE s
      [] o.name \in {"UpdateRepositoryAddTeamAccess", "UpdateRepositoryUpdateTeamAccess"} ->
            [s EXCEPT !.teamRepos = SetTeamAccess(@, a[2], a[1], TeamPermission(a[3]))]
      [] o.name = "UpdateRepositoryRemoveTeamAccess" ->
            [s EXCEPT !.teamRepos = DropTeamAccess(@, a[2], a[1])]
      [] o.name = "UpdateRepositorySetExternalUser" ->
            IF a[1] \in DOMAIN s.repos
               THEN [s EXCEPT !.repos[a[1]].externalUsers = Put(@, a[2], TeamPermission(a[3]))]
               ELSE s
      [] o.name = "UpdateRepositoryRemoveExternalUser" ->
            IF a[1] \in DOMAIN s.repos
               THEN [s EXCEPT !.repos[a[1]].externalUsers = Del(@, a[2])] ELSE s
      [] o.name = "AddRuleset" ->
            [s EXCEPT !.rulesets = Put(@, a[1].name, [a[1] EXCEPT !.id = FreshId(s.rulesets)])]
      [] o.name = "UpdateRuleset" ->
            [s EXCEPT !.rulesets = Put(@, a[1].name, a[1])]
      [] o.name = "DeleteRuleset" ->
            [s EXCEPT !.rulesets = [k \in {x \in DOMAIN @ : @[x].id # a[1]} |-> @[k]]]
      [] OTHER -> s

\* ---- the mediator (GoliacReconciliatorImpl's mutation methods) ----
\* the gates without the one of DeleteTeam
Gated_TeamsNotGated(o) ==
    \/ o.name = "RemoveUserFromOrg" /\ ~conf.allowDestructiveUsers
    \/ o.name = "DeleteRepository" /\ ~conf.allowDestructiveRepositories
    \/ o.name = "DeleteRuleset" /\ ~conf.allowDestructiveRulesets

\* the destructive operations the repository configuration does not allow
Gated(o) ==
    \/ o.name = "RemoveUserFromOrg" /\ ~conf.allowDestructiveUsers
    \/ o.name = "DeleteTeam" /\ ~conf.allowDestructiveTeams
    \/ o.name = "DeleteRepository" /\ ~conf.allowDestructiveRepositories
    \/ o.name = "DeleteRuleset" /\ ~conf.allowDestructiveRulesets

\* whether the method writes its log line
Logs(o) == o.name = "RemoveUserFromOrg" \/ ~Gated(o)
\* whether the method calls the mutator of the mirror
Mirrors(o) ==
    /\ o.name \notin RulesetOps \cup EnvelopeOps
    /\ o.name = "RemoveUserFromOrg" \/ ~Gated(o)
\* whether the method calls the Executor: `if r.executor != nil` inside the gate
ForwardsOn(o, executor) == executor /\ ~Gated(o)
Forwards(o) == ForwardsOn(o, conf.executor)

\* the effects of one mediator method, in the order of its statements: the
\* log line, the mutator of the mirror, the call of the Executor
Steps(o) ==
    (IF Logs(o) THEN <<"log">> ELSE <<>>)
       \o (IF Mirrors(o) THEN <<"mirror">> ELSE <<>>)
       \o (IF Forwards(o) THEN <<"executor">> ELSE <<>>)

\* the arguments the method hands on: UpdateTeamAddMember always passes "member"
Normalize(o) ==
    IF o.name = "UpdateTeamAddMember"
       THEN Op(o.name, <<o.args[1], o.args[2], "member">>)
       ELSE o

\* a mediator method that touches the mirror in real mode only
MediateWith_DryRunSkipsMirror(w, o, dryrun) ==
    LET n == Normalize(o) IN
    [mirror |-> IF Mirrors(o) /\ ~dryrun THEN ApplyOp(w.mirror, n) ELSE w.mirror,
     remote |-> IF Forwards(o) /\ ~dryrun THEN ApplyOp(w.remote, n) ELSE w.remote,
     calls |-> Append(w.calls, [name |-> n.name, args |-> n.args, logged |-> Logs(o),
                                mirrored |-> Mirrors(o) /\ ~dryrun,
                                forwarded |-> Forwards(o), dryrun |-> dryrun])]

\* a mediator method that updates the mirror only when an Executor is attached
MediateOn_MirrorNeedsExecutor(w, o, dryrun, executor) ==
    LET n == Normalize(o) IN
    [mirror |-> IF Mirrors(o) /\ executor THEN ApplyOp(w.mirror, n) ELSE w.mirror,
     remote |-> IF ForwardsOn(o, executor) /\ ~dryrun THEN ApplyOp(w.remote, n) ELSE w.remote,
     calls |-> Append(w.calls, [name |-> n.name, args |-> n.args, logged |-> Logs(o),
                                mirrored |-> Mirrors(o) /\ executor,
                                forwarded |-> ForwardsOn(o, executor),
                                dryrun |-> dryrun])]

\* one call of a mediator method with its dryrun argument, on a reconciler
\* with or without an Executor: w = [mirror, remote, calls]; the Executor
\* changes the remote in real mode
MediateOn(w, o, dryrun, executor) ==
    LET n == Normalize(o) IN
    [mirror |-> IF Mirrors(o) THEN ApplyOp(w.mirror, n) ELSE w.mirror,
     remote |-> IF ForwardsOn(o, executor) /\ ~dryrun THEN ApplyOp(w.remote, n) ELSE w.remote,
     calls |-> Append(w.calls, [name |-> n.name, args |-> n.args, logged |-> Logs(o),
                                mirrored |-> Mirrors(o),
                                forwarded |-> ForwardsOn(o, executor),
                                dryrun |-> dryrun])]

RECURSIVE MediateAllOn(_, _, _, _)
MediateAllOn(w, ops, dryrun, executor) ==
    IF ops = <<>> THEN w
    ELSE MediateAllOn(MediateOn(w, Head(ops), dryrun, executor), Tail(ops), dryrun, executor)

\* the same on the reconciler of the model (r.executor)
MediateWith(w, o, dryrun) == MediateOn(w, o, dryrun, conf.executor)

RECURSIVE MediateAllWith(_, _, _)
MediateAllWith(w, ops, dryrun) ==
    IF ops = <<>> THEN w
    ELSE MediateAllWith(MediateWith(w, Head(ops), dryrun), Tail(ops), dryrun)

\* the calls of one Reconciliate run carry the dryrun it was given
Mediate(w, o) == MediateWith(w, o, conf.dryrun)
MediateAll(w, ops) == MediateAllWith(w, ops, conf.dryrun)

\* the calls the Executor received, in order
Forwarded == SelectSeq(calls, LAMBDA c : c.forwarded)
\* the mutations among them
ForwardedMutations == SelectSeq(calls, LAMBDA c : c.forwarded /\ c.name \notin EnvelopeOps)
\* the operations the mediator emitted (logged)
Emitted == SelectSeq(calls, LAMBDA c : c.logged /\ c.name \notin EnvelopeOps)

\* ---- the set-diff primitive ----
RECURSIVE SetToSeq(_)
SetToSeq(S) ==
    IF S = {} THEN <<>>
    ELSE LET x == CHOOSE y \in S : TRUE IN <<x>> \o SetToSeq(S \ {x})

\* the order in which the keys of a map are visited: unspecified in the code,
\* one order in the model (callbacks of different keys touch different entities)
KeyOrder(S) == SetToSeq(S)

\* CompareEntities: one callback per key of declared or live, the keys visited
\* in the given order; equal is the set of common keys whose values the
\* comparison function finds equal. The result is the sequence of callbacks.
CompareEntities(declared, live, equal, order) ==
    LET Callback(k) ==
            IF k \notin DOMAIN live THEN <<[on |-> "added", key |-> k]>>
            ELSE IF k \notin DOMAIN declared THEN <<[on |-> "removed", key |-> k]>>
            ELSE IF k \notin equal THEN <<[on |-> "changed", key |-> k]>>
            ELSE <<>>
    IN Flatten([i \in 1..Len(order) |-> Callback(order[i])])
\* the common keys of two maps
Common(declared, live) == DOMAIN declared \cap DOMAIN live

\* ---- users ----
\* the loop of reconciliateUsers over the declared users: `user` is the zero
\* string when the lookup fails, and a found identifier leaves rUsers
RECURSIVE ScanUsers(_, _)
ScanUsers(order, rUsers) ==
    IF order = <<>> THEN [ops |-> <<>>, rUsers |-> rUsers]
    ELSE LET githubID == local.users[Head(order)]
             ok == githubID \in rUsers
             user == IF ok THEN githubID ELSE ZeroString
             rest == ScanUsers(Tail(order), IF ok THEN rUsers \ {user} ELSE rUsers)
         IN [ops |-> (IF ok THEN <<>> ELSE <<Op("AddUserToOrg", <<user>>)>>) \o rest.ops,
             rUsers |-> rest.rUsers]

\* the live identifiers no declared user matched
UnseenUsers(m) == ScanUsers(SetToSeq(DOMAIN local.users), m.users).rUsers

\* the mediator calls of reconciliateUsers; order is the order of the last loop
UsersOps(m, order) ==
    ScanUsers(SetToSeq(DOMAIN local.users), m.users).ops
        \o [i \in 1..Len(order) |-> Op("RemoveUserFromOrg", <<order[i]>>)]

\* ---- teams ----
RECURSIVE BuildSlugTeams(_, _)
BuildSlugTeams(order, acc) ==
    IF order = <<>> THEN acc
    ELSE LET teamname == Head(order)
             teamvalue == local.teams[teamname]
             teamslug == Slug(teamname)
             regular == [name |-> teamname, slug |-> teamslug,
                         members |-> List(teamvalue.members) (+) List(teamvalue.owners)]
             owners == [name |-> teamname \o "-owners", slug |-> teamslug \o "-owners",
                        members |-> List(teamvalue.owners)]
         IN BuildSlugTeams(Tail(order), Put(Put(acc, teamslug, regular),
                                            teamslug \o "-owners", owners))

\* the teams we want without the synthetic team
SlugTeams_NoEveryone(order) == BuildSlugTeams(order, EmptyMap)

\* the teams we want: regular, "-owners" and, when enabled, "everyone"
SlugTeams(order) ==
    LET st == BuildSlugTeams(order, EmptyMap) IN
    IF conf.everyoneTeamEnabled
       THEN Put(st, "everyone", [name |-> "everyone", slug |-> "everyone",
                                 members |-> List(DOMAIN local.users)])
       ELSE st

\* the team as CompareEntities sees it on the live side
LiveTeam(t) == [name |-> t.name, slug |-> t.slug, members |-> List(t.members)]

compareTeam(lTeam, rTeam) == StringArrayEquivalent(lTeam.members, rTeam.members).res

\* declared member names translated to identifiers, unknown names dropped
RECURSIVE MemberIDs(_)
MemberIDs(names) ==
    IF names = EmptyBag THEN EmptyBag
    ELSE LET m == CHOOSE x \in DOMAIN names : TRUE
             rest == MemberIDs([x \in DOMAIN names \ {m} |-> names[x]])
         IN IF m \in DOMAIN local.users
               THEN [x \in {local.users[m]} |-> names[m]] (+) rest
               ELSE rest

\* onAdded that creates no "-owners" team
TeamOnAdded_OwnersForgotten(key, lTeam) ==
    IF key \in {Slug(t) \o "-owners" : t \in DOMAIN local.teams} THEN <<>>
    ELSE <<Op("CreateTeam", <<lTeam.slug, lTeam.name, Elems(MemberIDs(lTeam.members))>>)>>

TeamOnAdded(key, lTeam) ==
    <<Op("CreateTeam", <<lTeam.slug, lTeam.name, Elems(MemberIDs(lTeam.members))>>)>>

\* onRemoved that leaves the live team alone
TeamOnRemoved_Nothing(key, rTeam) == <<>>

TeamOnRemoved(key, rTeam) == <<Op("DeleteTeam", <<rTeam.slug>>)>>

TeamOnChanged(slugTeam, lTeam, rTeam) ==
    LET localMembers == Elems(MemberIDs(lTeam.members))
        remove == SetToSeq(Elems(rTeam.members) \ localMembers)
        add == SetToSeq(localMembers \ Elems(rTeam.members))
    IN [i \in 1..Len(remove) |-> Op("UpdateTeamRemoveMember", <<slugTeam, remove[i]>>)]
         \o [i \in 1..Len(add) |-> Op("UpdateTeamAddMember", <<slugTeam, add[i], "member">>)]

\* the mediator calls of reconciliateTeams; teamOrder is the order in which
\* the declared teams are visited, keyOrder the order of CompareEntities
TeamsOps(m, teamOrder, keyOrder) ==
    LET slugTeams == SlugTeams(teamOrder)
        rTeams == [k \in DOMAIN m.teams |-> LiveTeam(m.teams[k])]
        equal == {k \in Common(slugTeams, rTeams) : compareTeam(slugTeams[k], rTeams[k])}
        cb == CompareEntities(slugTeams, rTeams, equal, keyOrder)
    IN Flatten([i \in 1..Len(cb) |->
           CASE cb[i].on = "added" -> TeamOnAdded(cb[i].key, slugTeams[cb[i].key])
             [] cb[i].on = "removed" -> TeamOnRemoved(cb[i].key, rTeams[cb[i].key])
             [] cb[i].on = "changed" ->
                  TeamOnChanged(cb[i].key, slugTeams[cb[i].key], rTeams[cb[i].key])])

\* ---- repositories ----
NoOwner == "<nil>"
RECURSIVE SlugList(_)
SlugList(names) ==
    IF names = {} THEN EmptyBag
    ELSE LET n == CHOOSE x \in names : TRUE
         IN List({Slug(n)}) (+) SlugList(names \ {n})
RECURSIVE OwnersList(_)
OwnersList(names) ==
    IF names = {} THEN EmptyBag
    ELSE LET n == CHOOSE x \in names : TRUE
         IN List({Slug(n) \o "-owners"}) (+) OwnersList(names \ {n})

\* the teams with access to repository r whose permission is in perms
TeamsWith(m, r, perms) ==
    {t \in DOMAIN m.teamRepos : r \in DOMAIN m.teamRepos[t] /\ m.teamRepos[t][r] \in perms}
Permissions == {"ADMIN", "WRITE", "READ"}

\* the comparable of a live repository
LiveRepo(m, k) ==
    LET v == m.repos[k] IN
    [isPublic |-> ~v.isPrivate,
     isArchived |-> v.isArchived,
     writers |-> List(TeamsWith(m, k, {"ADMIN", "WRITE"})),
     readers |-> List(TeamsWith(m, k, Permissions \ {"ADMIN", "WRITE"})),
     externalUserReaders |-> List({c \in DOMAIN v.externalUsers : v.externalUsers[c] # "WRITE"}),
     externalUserWriters |-> List({c \in DOMAIN v.externalUsers : v.externalUsers[c] = "WRITE"})]

\* the translation that keeps an unknown name as the zero identifier
ExternalIDsOf_KeepsUnknown(names) ==
    List({IF n \in DOMAIN local.externalUsers THEN local.externalUsers[n] ELSE ZeroString :
             n \in names})

\* declared external user names translated to identifiers, unknown names dropped
ExternalIDsOf(names) ==
    List({local.externalUsers[n] : n \in names \cap DOMAIN local.externalUsers})

\* the comparable of a declared repository
DeclaredRepo(reponame) ==
    LET lRepo == local.repos[reponame] IN
    [isPublic |-> lRepo.isPublic,
     isArchived |-> lRepo.archived,
     writers |-> SlugList(lRepo.writers)
                   (+) (IF lRepo.owner # NoOwner THEN List({Slug(lRepo.owner)}) ELSE EmptyBag)
                   (+) (IF reponame = conf.teamsreponame
                           THEN OwnersList(DOMAIN local.teams) ELSE EmptyBag),
     readers |-> SlugList(lRepo.readers)
                   (+) (IF conf.everyoneTeamEnabled THEN List({"everyone"}) ELSE EmptyBag),
     externalUserReaders |-> ExternalIDsOf(lRepo.externalUserReaders),
     externalUserWriters |-> ExternalIDsOf(lRepo.externalUserWriters)]

RECURSIVE BuildLRepos(_, _)
BuildLRepos(order, acc) ==
    IF order = <<>> THEN acc
    ELSE BuildLRepos(Tail(order), Put(acc, Slug(Head(order)), DeclaredRepo(Head(order))))

\* the comparison without the archived flag
compareRepos_IgnoresArchived(lRepo, rRepo) ==
    /\ lRepo.isPublic = rRepo.isPublic
    /\ StringArrayEquivalent(lRepo.readers, rRepo.readers).res
    /\ StringArrayEquivalent(lRepo.writers, rRepo.writers).res
    /\ StringArrayEquivalent(lRepo.externalUserReaders, rRepo.externalUserReaders).res
    /\ StringArrayEquivalent(lRepo.externalUserWriters, rRepo.externalUserWriters).res

compareRepos(lRepo, rRepo) ==
    /\ lRepo.isArchived = rRepo.isArchived
    /\ lRepo.isPublic = rRepo.isPublic
    /\ StringArrayEquivalent(lRepo.readers, rRepo.readers).res
    /\ StringArrayEquivalent(lRepo.writers, rRepo.writers).res
    /\ StringArrayEquivalent(lRepo.externalUserReaders, rRepo.externalUserReaders).res
    /\ StringArrayEquivalent(lRepo.externalUserWriters, rRepo.externalUserWriters).res

RepoOnAdded(reponame, lRepo) ==
    <<Op("CreateRepository",
         <<reponame, reponame, Elems(lRepo.writers), Elems(lRepo.readers), lRepo.isPublic>>)>>

RepoOnRemoved(reponame, rRepo) == <<Op("DeleteRepository", <<reponame>>)>>

\* one mediator call name(reponame, x, extra...) per element x of S, in one order
ForEach(S, name, reponame, extra) ==
    LET q == SetToSeq(S) IN [i \in 1..Len(q) |-> Op(name, <<reponame, q[i]>> \o extra)]

\* onChanged removing every external user that left a list, moved or not
RepoOnChanged_NoCrossCheck(reponame, lRepo, rRepo) ==
    LET rd == StringArrayEquivalent(lRepo.readers, rRepo.readers)
        wr == StringArrayEquivalent(lRepo.writers, rRepo.writers)
        er == StringArrayEquivalent(lRepo.externalUserReaders, rRepo.externalUserReaders)
        ew == StringArrayEquivalent(lRepo.externalUserWriters, rRepo.externalUserWriters)
    IN (IF lRepo.isPublic # rRepo.isPublic
           THEN <<Op("UpdateRepositoryUpdatePrivate", <<reponame, ~lRepo.isPublic>>)>>
           ELSE <<>>)
       \o (IF lRepo.isArchived # rRepo.isArchived
              THEN <<Op("UpdateRepositoryUpdateArchived", <<reponame, lRepo.isArchived>>)>>
              ELSE <<>>)
       \o (IF ~rd.res
              THEN ForEach(rd.toAdd, "UpdateRepositoryAddTeamAccess", reponame, <<"pull">>)
                   \o ForEach(rd.toRemove, "UpdateRepositoryRemoveTeamAccess", reponame, <<>>)
              ELSE <<>>)
       \o (IF ~wr.res
              THEN ForEach(wr.toAdd, "UpdateRepositoryAddTeamAccess", reponame, <<"push">>)
                   \o ForEach(wr.toRemove, "UpdateRepositoryRemoveTeamAccess", reponame, <<>>)
              ELSE <<>>)
       \o (IF ~er.res
              THEN ForEach(er.toRemove, "UpdateRepositoryRemoveExternalUser",
                           reponame, <<>>)
                   \o ForEach(er.toAdd, "UpdateRepositorySetExternalUser", reponame, <<"pull">>)
              ELSE <<>>)
       \o (IF ~ew.res
              THEN ForEach(ew.toRemove, "UpdateRepositoryRemoveExternalUser",
                           reponame, <<>>)
                   \o ForEach(ew.toAdd, "UpdateRepositorySetExternalUser", reponame, <<"push">>)
              ELSE <<>>)

\* onChanged setting the archived flag before the visibility
RepoOnChanged_ArchivedFirst(reponame, lRepo, rRepo) ==
    LET rd == StringArrayEquivalent(lRepo.readers, rRepo.readers)
        wr == StringArrayEquivalent(lRepo.writers, rRepo.writers)
        er == StringArrayEquivalent(lRepo.externalUserReaders, rRepo.externalUserReaders)
        ew == StringArrayEquivalent(lRepo.externalUserWriters, rRepo.externalUserWriters)
    IN (IF lRepo.isArchived # rRepo.isArchived
              THEN <<Op("UpdateRepositoryUpdateArchived", <<reponame, lRepo.isArchived>>)>>
              ELSE <<>>)
       \o (IF lRepo.isPublic # rRepo.isPublic
           THEN <<Op("UpdateRepositoryUpdatePrivate", <<reponame, ~lRepo.isPublic>>)>>
           ELSE <<>>)
       \o (IF ~rd.res
              THEN ForEach(rd.toAdd, "UpdateRepositoryAddTeamAccess", reponame, <<"pull">>)
                   \o ForEach(rd.toRemove, "UpdateRepositoryRemoveTeamAccess", reponame, <<>>)
              ELSE <<>>)
       \o (IF ~wr.res
              THEN ForEach(wr.toAdd, "UpdateRepositoryAddTeamAccess", reponame, <<"push">>)
                   \o ForEach(wr.toRemove, "UpdateRepositoryRemoveTeamAccess", reponame, <<>>)
              ELSE <<>>)
       \o (IF ~er.res
              THEN ForEach(er.toRemove \ ew.toAdd, "UpdateRepositoryRemoveExternalUser",
                           reponame, <<>>)
                   \o ForEach(er.toAdd, "UpdateRepositorySetExternalUser", reponame, <<"pull">>)
              ELSE <<>>)
       \o (IF ~ew.res
              THEN ForEach(ew.toRemove \ er.toAdd, "UpdateRepositoryRemoveExternalUser",
                           reponame, <<>>)
                   \o ForEach(ew.toAdd, "UpdateRepositorySetExternalUser", reponame, <<"push">>)
              ELSE <<>>)

RepoOnChanged(reponame, lRepo, rRepo) ==
    LET rd == StringArrayEquivalent(lRepo.readers, rRepo.readers)
        wr == StringArrayEquivalent(lRepo.writers, rRepo.writers)
        er == StringArrayEquivalent(lRepo.externalUserReaders, rRepo.externalUserReaders)
        ew == StringArrayEquivalent(lRepo.externalUserWriters, rRepo.externalUserWriters)
    IN (IF lRepo.isPublic # rRepo.isPublic
           THEN <<Op("UpdateRepositoryUpdatePrivate", <<reponame, ~lRepo.isPublic>>)>>
           ELSE <<>>)
       \o (IF lRepo.isArchived # rRepo.isArchived
              THEN <<Op("UpdateRepositoryUpdateArchived", <<reponame, lRepo.isArchived>>)>>
              ELSE <<>>)
       \o (IF ~rd.res
              THEN ForEach(rd.toAdd, "UpdateRepositoryAddTeamAccess", reponame, <<"pull">>)
                   \o ForEach(rd.toRemove, "UpdateRepositoryRemoveTeamAccess", reponame, <<>>)
              ELSE <<>>)
       \o (IF ~wr.res
              THEN ForEach(wr.toAdd, "UpdateRepositoryAddTeamAccess", reponame, <<"push">>)
                   \o ForEach(wr.toRemove, "UpdateRepositoryRemoveTeamAccess", reponame, <<>>)
              ELSE <<>>)
       \o (IF ~er.res
              THEN ForEach(er.toRemove \ ew.toAdd, "UpdateRepositoryRemoveExternalUser",
                           reponame, <<>>)
                   \o ForEach(er.toAdd, "UpdateRepositorySetExternalUser", reponame, <<"pull">>)
              ELSE <<>>)
       \o (IF ~ew.res
              THEN ForEach(ew.toRemove \ er.toAdd, "UpdateRepositoryRemoveExternalUser",
                           reponame, <<>>)
                   \o ForEach(ew.toAdd, "UpdateRepositorySetExternalUser", reponame, <<"push">>)
              ELSE <<>>)

\* the mediator calls of reconciliateRepositories
ReposOps(m, repoOrder, keyOrder) ==
    LET lRepos == BuildLRepos(repoOrder, EmptyMap)
        rRepos == [k \in DOMAIN m.repos |-> LiveRepo(m, k)]
        equal == {k \in Common(lRepos, rRepos) : compareRepos(lRepos[k], rRepos[k])}
        cb == CompareEntities(lRepos, rRepos, equal, keyOrder)
    IN Flatten([i \in 1..Len(cb) |->
           CASE cb[i].on = "added" -> RepoOnAdded(cb[i].key, lRepos[cb[i].key])
             [] cb[i].on = "removed" -> RepoOnRemoved(cb[i].key, rRepos[cb[i].key])
             [] cb[i].on = "changed" ->
                  RepoOnChanged(cb[i].key, lRepos[cb[i].key], rRepos[cb[i].key])])

\* ---- rulesets ----
ValidPattern == "^svc-.*"
InvalidPattern == "("
\* regexp.Compile fails
CompileFails(pattern) == pattern = InvalidPattern
\* match.Match on a repository slug
Matches(pattern, s) == pattern = ValidPattern /\ s \in {"svc-a", "svc-b"}
ErrRegexp == "Not able to parse ruleset regular expression"
ErrNoRuleset == "Not able to find ruleset definition"

\* the comparable of the declared ruleset rs under a pattern
DeclaredRuleset(rs, pattern) ==
    [name |-> rs.name, id |-> 0, enforcement |-> rs.enforcement,
     bypassApps |-> rs.bypassApps, onInclude |-> List(rs.include),
     onExclude |-> List(rs.exclude), rules |-> rs.rules,
     repositories |-> SlugList({n \in DOMAIN local.repos : Matches(pattern, Slug(n))})]

\* the loop over conf.Rulesets: the first error, and the comparables built
RECURSIVE BuildLgrs(_, _)
BuildLgrs(entries, acc) ==
    IF entries = <<>> THEN [err |-> NoErr, lgrs |-> acc]
    ELSE LET confrs == Head(entries) IN
         IF CompileFails(confrs.pattern) THEN [err |-> ErrRegexp, lgrs |-> acc]
         ELSE IF confrs.ruleset \notin DOMAIN local.rulesets
                 THEN [err |-> ErrNoRuleset, lgrs |-> acc]
         ELSE LET rs == local.rulesets[confrs.ruleset]
              IN BuildLgrs(Tail(entries), Put(acc, rs.name, DeclaredRuleset(rs, confrs.pattern)))

compareRulesets(lrs, rrs) ==
    /\ lrs.enforcement = rrs.enforcement
    /\ Cardinality(DOMAIN lrs.bypassApps) = Cardinality(DOMAIN rrs.bypassApps)
    /\ \A k \in DOMAIN lrs.bypassApps : Get(rrs.bypassApps, k, ZeroString) = lrs.bypassApps[k]
    /\ StringArrayEquivalent(lrs.onInclude, rrs.onInclude).res
    /\ StringArrayEquivalent(lrs.onExclude, rrs.onExclude).res
    /\ Cardinality(DOMAIN lrs.rules) = Cardinality(DOMAIN rrs.rules)
    /\ \A k \in DOMAIN lrs.rules : Get(rrs.rules, k, ZeroString) = lrs.rules[k]
    /\ StringArrayEquivalent(lrs.repositories, rrs.repositories).res

RulesetOnAdded(rulesetname, lRuleset) == <<Op("AddRuleset", <<lRuleset>>)>>
RulesetOnRemoved(rulesetname, rRuleset) == <<Op("DeleteRuleset", <<rRuleset.id>>)>>
RulesetOnChanged(rulesetname, lRuleset, rRuleset) ==
    <<Op("UpdateRuleset", <<[lRuleset EXCEPT !.id = rRuleset.id]>>)>>

\* the mediator calls of reconciliateRulesets when the configuration is valid
RulesetsOps(m, keyOrder) ==
    LET lgrs == BuildLgrs(conf.rulesets, EmptyMap).lgrs
        rgrs == m.rulesets
        equal == {k \in Common(lgrs, rgrs) : compareRulesets(lgrs[k], rgrs[k])}
        cb == CompareEntities(lgrs, rgrs, equal, keyOrder)
    IN Flatten([i \in 1..Len(cb) |->
           CASE cb[i].on = "added" -> RulesetOnAdded(cb[i].key, lgrs[cb[i].key])
             [] cb[i].on = "removed" -> RulesetOnRemoved(cb[i].key, rgrs[cb[i].key])
             [] cb[i].on = "changed" ->
                  RulesetOnChanged(cb[i].key, lgrs[cb[i].key], rgrs[cb[i].key])])
\* a rulesets pass that swallows the configuration error
RulesetsErr_Swallowed == NoErr

\* the error reconciliateRulesets returns
RulesetsErr == BuildLgrs(conf.rulesets, EmptyMap).err

\* ---- inputs ----
\* a case pairs a declared view of one entity class with a live view of it
Case(d, l) == [declared |-> d, live |-> l]
FirstUser == AllUserNames[1]
IdOf(n) == "gh-" \o n
AllPresent == [n \in UserNames |-> IdOf(n)]

DeclaredUsers == UNION {[D -> GithubIDs] : D \in SUBSET UserNames}
UsersRich == {Case(d, l) : d \in DeclaredUsers, l \in SUBSET GithubIDs}
UsersDefault == Case([n \in {FirstUser} |-> IdOf(n)], GithubIDs \ {IdOf(FirstUser)})
UsersBase == {UsersDefault, Case(AllPresent, GithubIDs)}

DeclaredTeam(m, o) == [members |-> m, owners |-> o]
DeclaredTeams ==
    {EmptyMap} \cup {[t \in {"Eng"} |-> DeclaredTeam(m, o)] :
                        m \in SUBSET UserNames, o \in SUBSET {FirstUser}}
\* live teams: some of eng, eng-owners, ghost
LiveTeamsOf(eng, owners, ghost) ==
    [k \in {x \in {"eng"} : eng # {"-"}} \cup {x \in {"eng-owners"} : owners # {"-"}}
           \cup {x \in {"ghost"} : ghost}
       |-> NewTeam(k, IF k = "eng" THEN eng ELSE IF k = "eng-owners" THEN owners ELSE {})]
\* the identifiers live members can have: those of the declared users, and one
\* that reads like the logical name of a declared user
LiveLogins == GithubIDs \cup {FirstUser}
LiveTeams ==
    {LiveTeamsOf(e, o, g) : e \in {{"-"}} \cup SUBSET LiveLogins,
                            o \in {{"-"}, {IdOf(FirstUser)}}, g \in BOOLEAN}
\* two declared teams whose keys meet after slug.Make: the names "Eng" and
\* other give the same slug, or other is the slug of the "-owners" sibling
TwoTeams(other) ==
    [t \in {"Eng", other} |->
        IF t = "Eng" THEN DeclaredTeam({FirstUser}, {})
        ELSE DeclaredTeam(UserNames \ {FirstUser}, {})]
TeamsSameSlug ==
    {Case(TwoTeams(other), l) :
        other \in TeamNames \ {"Eng"},
        l \in {LiveTeamsOf({"-"}, {"-"}, FALSE), LiveTeamsOf({IdOf(FirstUser)}, {}, FALSE)}}
\* a live team everyone next to the live teams of Eng
TeamsEveryoneLive ==
    {Case([t \in {"Eng"} |-> DeclaredTeam({FirstUser}, {})],
          Put(LiveTeamsOf({IdOf(FirstUser)}, {}, FALSE), "everyone", NewTeam("everyone", m))) :
        m \in {{}, {IdOf(FirstUser)}, GithubIDs}}
TeamsRich ==
    {Case(d, l) : d \in DeclaredTeams, l \in LiveTeams} \cup TeamsSameSlug
        \cup TeamsEveryoneLive
TeamsDefault ==
    Case([t \in {"Eng"} |-> DeclaredTeam({FirstUser}, {})],
         LiveTeamsOf(GithubIDs \ {IdOf(FirstUser)}, {"-"}, TRUE))
TeamsBase ==
    {TeamsDefault,
     Case([t \in {"Eng"} |-> DeclaredTeam(UserNames, {FirstUser})],
          LiveTeamsOf(GithubIDs, {IdOf(FirstUser)}, FALSE))}

\* a declared repository: team "Eng" and external user "xu" each hold one role
DeclaredRepoOf(public, archived, team, ext) ==
    [isPublic |-> public, archived |-> archived,
     readers |-> IF team = "reader" THEN {"Eng"} ELSE {},
     writers |-> IF team = "writer" THEN {"Eng"} ELSE {},
     owner |-> IF team = "owner" THEN "Eng" ELSE NoOwner,
     externalUserReaders |-> IF ext = "reader" THEN {"xu"} ELSE {},
     externalUserWriters |-> IF ext = "writer" THEN {"xu"} ELSE {}]
\* a live repository with the access map of team eng and of collaborator gh-xu
LiveReposOf(name, private, archived, team, ext) ==
    [repos |-> [r \in {name} |->
                   [isPrivate |-> private, isArchived |-> archived,
                    externalUsers |-> IF ext = "-" THEN EmptyMap
                                      ELSE [c \in {"gh-xu"} |-> ext]]],
     teamRepos |-> IF team = "-" THEN EmptyMap
                   ELSE [t \in {"eng"} |-> [r \in {name} |-> team]]]
NoLiveRepos == [repos |-> EmptyMap, teamRepos |-> EmptyMap]
DeclaredRepos ==
    {EmptyMap} \cup
    {[r \in {"svc-a"} |-> DeclaredRepoOf(p, a, t, x)] :
        p \in BOOLEAN, a \in BOOLEAN, t \in {"-", "reader", "writer"},
        x \in {"-", "reader", "writer"}}
LiveRepos ==
    {NoLiveRepos} \cup
    {LiveReposOf("svc-a", p, a, t, x) :
        p \in BOOLEAN, a \in BOOLEAN, t \in {"-", "READ", "WRITE"},
        x \in {"-", "READ", "WRITE"}}
\* a declared repository naming an external user nobody declared
DanglingName == "yu"
ReposDangling ==
    {Case([r \in {"svc-a"} |->
              IF asWriter
                 THEN [DeclaredRepoOf(TRUE, FALSE, "-", x) EXCEPT
                          !.externalUserWriters = @ \cup {DanglingName}]
                 ELSE [DeclaredRepoOf(TRUE, FALSE, "-", x) EXCEPT
                          !.externalUserReaders = @ \cup {DanglingName}]], l) :
        asWriter \in BOOLEAN, x \in {"-", "reader"},
        l \in {NoLiveRepos, LiveReposOf("svc-a", FALSE, FALSE, "-", "-"),
               LiveReposOf("svc-a", FALSE, FALSE, "-", "WRITE")}}
ReposRich == {Case(d, l) : d \in DeclaredRepos, l \in LiveRepos} \cup ReposDangling
ReposDefault ==
    Case([r \in {"Teams"} |-> DeclaredRepoOf(FALSE, FALSE, "reader", "-")],
         LiveReposOf("old", TRUE, TRUE, "READ", "-"))
ReposBase ==
    {ReposDefault,
     Case([r \in {"svc-a"} |-> DeclaredRepoOf(TRUE, FALSE, "owner", "writer")],
          LiveReposOf("svc-a", TRUE, FALSE, "ADMIN", "READ"))}

DeclaredRulesetOf(name, enforcement) ==
    [name |-> name, enforcement |-> enforcement, bypassApps |-> [app1 |-> "always"],
     include |-> {"~DEFAULT_BRANCH"}, exclude |-> {}, rules |-> [required_signatures |-> "p1"]]
LiveRulesetOf(name, id, enforcement, repositories) ==
    [name |-> name, id |-> id, enforcement |-> enforcement,
     bypassApps |-> [app1 |-> "always"], onInclude |-> List({"~DEFAULT_BRANCH"}),
     onExclude |-> EmptyBag, rules |-> [required_signatures |-> "p1"],
     repositories |-> List(repositories)]
ConfEntry(pattern, ruleset) == [pattern |-> pattern, ruleset |-> ruleset]
\* declared: the rulesets and the configured (pattern, ruleset) entries
RulesetsCase(enforcement, entries, live) ==
    Case([rulesets |-> [n \in {"checks"} |-> DeclaredRulesetOf("checks", enforcement)],
          entries |-> entries], live)
LiveChecks == [n \in {"checks"} |-> LiveRulesetOf("checks", 7, "active", {"svc-a"})]
LiveLegacy == [n \in {"legacy"} |-> LiveRulesetOf("legacy", 8, "active", {})]
RulesetsRich ==
    {RulesetsCase(e, c, l) :
        e \in {"active", "evaluate"},
        c \in {<<>>, <<ConfEntry(ValidPattern, "checks")>>,
               <<ConfEntry(InvalidPattern, "checks")>>,
               <<ConfEntry(ValidPattern, "undefined")>>},
        l \in {EmptyMap, LiveChecks, LiveLegacy}}
RulesetsDefault == RulesetsCase("evaluate", <<ConfEntry(ValidPattern, "checks")>>, LiveLegacy)
RulesetsBase ==
    {RulesetsDefault,
     RulesetsCase("evaluate", <<ConfEntry(ValidPattern, "checks")>>, LiveChecks),
     RulesetsCase("evaluate", <<ConfEntry(InvalidPattern, "checks")>>, LiveLegacy)}

MakeLocal(u, t, r, rs) ==
    [users |-> u.declared, externalUsers |-> [n \in {"xu"} |-> "gh-xu"],
     teams |-> t.declared, repos |-> r.declared, rulesets |-> rs.declared.rulesets]
MakeRemote(u, t, r, rs, enterprise) ==
    [users |-> u.live, teams |-> t.live, repos |-> r.live.repos,
     teamRepos |-> r.live.teamRepos, rulesets |-> rs.live, enterprise |-> enterprise]
MakeConf(rs, du, dt, dr, drs, everyone, executor, dryrun) ==
    [rulesets |-> rs.declared.entries,
     allowDestructiveUsers |-> du, allowDestructiveTeams |-> dt,
     allowDestructiveRepositories |-> dr, allowDestructiveRulesets |-> drs,
     everyoneTeamEnabled |-> everyone, executor |-> executor, dryrun |-> dryrun,
     teamsreponame |-> "Teams"]

\* ---- the declared state materialized as live ----
\* the identifiers of the declared users among names, under the user map d
IdsOf(d, names) == {d[n] : n \in names \cap DOMAIN d}
MaterializedUsers(d) == {d[n] : n \in DOMAIN d}
\* every declared team and its "-owners" sibling, with the translated members
MaterializedTeams(d, dt) ==
    [k \in {Slug(t) : t \in DOMAIN dt} \cup {Slug(t) \o "-owners" : t \in DOMAIN dt} |->
        LET t == CHOOSE x \in DOMAIN dt : k \in {Slug(x), Slug(x) \o "-owners"}
        IN NewTeam(k, IF k = Slug(t) THEN IdsOf(d, dt[t].members \cup dt[t].owners)
                      ELSE IdsOf(d, dt[t].owners))]
\* the team slugs a declared repository gives write access, and read access
WriterSlugs(dr, dt, r, teamsrepo) ==
    {Slug(x) : x \in dr[r].writers}
       \cup {Slug(x) : x \in {dr[r].owner} \ {NoOwner}}
       \cup (IF r = teamsrepo THEN {Slug(t) \o "-owners" : t \in DOMAIN dt} ELSE {})
ReaderSlugs(dr, r) == {Slug(x) : x \in dr[r].readers}
\* every declared repository with the same flags, team and external access
MaterializedRepos(dr, dt, ext, teamsrepo) ==
    LET Name(k) == CHOOSE r \in DOMAIN dr : Slug(r) = k
        Access(t) == {Slug(r) : r \in {x \in DOMAIN dr :
                          t \in WriterSlugs(dr, dt, x, teamsrepo) \cup ReaderSlugs(dr, x)}}
        AllSlugs == UNION {WriterSlugs(dr, dt, r, teamsrepo) \cup ReaderSlugs(dr, r) :
                              r \in DOMAIN dr}
    IN [repos |-> [k \in {Slug(r) : r \in DOMAIN dr} |->
                      [isPrivate |-> ~dr[Name(k)].isPublic,
                       isArchived |-> dr[Name(k)].archived,
                       externalUsers |->
                          [c \in IdsOf(ext, dr[Name(k)].externalUserReaders
                                               \cup dr[Name(k)].externalUserWriters) |->
                              IF c \in IdsOf(ext, dr[Name(k)].externalUserWriters)
                                 THEN "WRITE" ELSE "READ"]]],
        teamRepos |-> [t \in AllSlugs |->
                          [k \in Access(t) |->
                              IF t \in WriterSlugs(dr, dt, Name(k), teamsrepo)
                                 THEN "WRITE" ELSE "READ"]]]
\* the live state that is exactly the declared state l, without rulesets
Materialized(l, teamsrepo, enterprise) ==
    LET mr == MaterializedRepos(l.repos, l.teams, l.externalUsers, teamsrepo) IN
    [users |-> MaterializedUsers(l.users),
     teams |-> MaterializedTeams(l.users, l.teams),
     repos |-> mr.repos, teamRepos |-> mr.teamRepos,
     rulesets |-> EmptyMap, enterprise |-> enterprise]

\* the inputs of the model: every class in turn ranges over its rich cases
\* while the others take one case (a base case where the focus depends on
\* them); the focus "flags" ranges over the configuration and the base cases
Focuses == {"users", "teams", "repos", "rulesets", "flags"}
Pick(focus, class, related, rich, base, default) ==
    IF focus = class THEN rich
    ELSE IF focus \in related \cup {"flags"} THEN base ELSE {default}
Flag(focus, classes) == IF focus \in classes THEN BOOLEAN ELSE {TRUE}

InitFocused ==
    \E focus \in Focuses :
       \E u \in Pick(focus, "users", {"teams"}, UsersRich, UsersBase, UsersDefault),
          t \in Pick(focus, "teams", {}, TeamsRich, TeamsBase, TeamsDefault),
          r \in Pick(focus, "repos", {}, ReposRich, ReposBase, ReposDefault),
          rs \in Pick(focus, "rulesets", {}, RulesetsRich, RulesetsBase, RulesetsDefault),
          du \in Flag(focus, {"users", "flags"}),
          dt \in Flag(focus, {"teams", "flags"}),
          dr \in Flag(focus, {"repos", "flags"}),
          drs \in Flag(focus, {"rulesets", "flags"}),
          everyone \in IF focus \in {"teams", "flags"} THEN BOOLEAN ELSE {FALSE},
          enterprise \in Flag(focus, {"rulesets", "flags"}),
          executor \in Flag(focus, {"flags"}),
          dryrun \in IF focus = "flags" THEN BOOLEAN ELSE {FALSE} :
            /\ local = MakeLocal(u, t, r, rs)
            /\ remote = MakeRemote(u, t, r, rs, enterprise)
            /\ conf = MakeConf(rs, du, dt, dr, drs, everyone, executor, dryrun)

\* the inputs where the live state is the declared state materialized
InitIdentity ==
    \E d \in DeclaredUsers, t \in TeamsBase, r \in ReposBase,
       enterprise \in BOOLEAN, executor \in BOOLEAN :
       LET rs == RulesetsCase("active", <<>>, EmptyMap) IN
       /\ local = MakeLocal(Case(d, {}), t, r, rs)
       /\ conf = MakeConf(rs, TRUE, TRUE, TRUE, TRUE, FALSE, executor, FALSE)
       /\ remote = Materialized(local, conf.teamsreponame, enterprise)

\* the inputs where nothing is declared: no user, team or repository, no
\* configured ruleset entry, the everyone team disabled
InitEmptyDeclared ==
    \E lu \in SUBSET GithubIDs,
       lt \in {LiveTeamsOf({"-"}, {"-"}, FALSE),
               LiveTeamsOf(GithubIDs, {IdOf(FirstUser)}, TRUE)},
       lr \in {NoLiveRepos, LiveReposOf("svc-a", TRUE, FALSE, "WRITE", "READ")},
       du \in BOOLEAN, dt \in BOOLEAN, dr \in BOOLEAN,
       enterprise \in BOOLEAN, executor \in BOOLEAN :
       LET rs == RulesetsCase("active", <<>>, EmptyMap)
           u == Case(EmptyMap, lu)
           t == Case(EmptyMap, lt)
           r == Case(EmptyMap, lr)
       IN /\ local = MakeLocal(u, t, r, rs)
          /\ remote = MakeRemote(u, t, r, rs, enterprise)
          /\ conf = MakeConf(rs, du, dt, dr, TRUE, FALSE, executor, FALSE)

RecInit ==
    /\ InitFocused \/ InitIdentity \/ InitEmptyDeclared
    /\ mirror = EmptyLive
    /\ calls = <<>>
    /\ phase = "start"
    /\ result = NoErr
    /\ run = 1

\* ---- Reconciliate ----
World == [mirror |-> mirror, remote |-> remote, calls |-> calls]
Install(w) ==
    /\ mirror' = w.mirror
    /\ remote' = w.remote
    /\ calls' = w.calls

\* the passes without the test of IsEnterprise
NextPhase_NoEnterpriseTest(ph) ==
    CASE ph = "start" -> "users"
      [] ph = "users" -> "teams"
      [] ph = "teams" -> "repos"
      [] ph = "repos" -> "rulesets"
      [] ph = "rulesets" -> "commit"
      [] OTHER -> "done"

\* the passes in another order: repositories before teams
NextPhase_ReposBeforeTeams(ph) ==
    CASE ph = "start" -> "users"
      [] ph = "users" -> "repos"
      [] ph = "repos" -> "teams"
      [] ph = "teams" -> IF remote.enterprise THEN "rulesets" ELSE "commit"
      [] ph = "rulesets" -> "commit"
      [] OTHER -> "done"

\* the pass that follows a pass which returned no error
NextPhase(ph) ==
    CASE ph = "start" -> "users"
      [] ph = "users" -> "teams"
      [] ph = "teams" -> "repos"
      [] ph = "repos" -> IF remote.enterprise THEN "rulesets" ELSE "commit"
      [] ph = "rulesets" -> "commit"
      [] OTHER -> "done"

\* NewMutableGoliacRemoteImpl(remote) and r.Begin
Begin ==
    /\ phase = "start"
    /\ Install(Mediate([mirror |-> remote, remote |-> remote, calls |-> <<>>],
                       Op("Begin", <<>>)))
    /\ phase' = NextPhase(phase)
    /\ UNCHANGED <<local, conf, result, run, schedVars>>

ReconciliateUsers ==
    /\ phase = "users"
    /\ Install(MediateAll(World, UsersOps(mirror, KeyOrder(UnseenUsers(mirror)))))
    /\ phase' = NextPhase(phase)
    /\ UNCHANGED <<local, conf, result, run, schedVars>>

\* teamOrder: the order in which the range loop visits the declared teams
ReconciliateTeams ==
    /\ phase = "teams"
    /\ \E teamOrder \in Perms(DOMAIN local.teams) :
          Install(MediateAll(World, TeamsOps(mirror, teamOrder,
              KeyOrder(DOMAIN SlugTeams(teamOrder) \cup DOMAIN mirror.teams))))
    /\ phase' = NextPhase(phase)
    /\ UNCHANGED <<local, conf, result, run, schedVars>>

\* repoOrder: the order in which the range loop visits the declared repositories
ReconciliateRepositories ==
    /\ phase = "repos"
    /\ \E repoOrder \in Perms(DOMAIN local.repos) :
          Install(MediateAll(World, ReposOps(mirror, repoOrder,
              KeyOrder(DOMAIN BuildLRepos(repoOrder, EmptyMap) \cup DOMAIN mirror.repos))))
    /\ phase' = NextPhase(phase)
    /\ UNCHANGED <<local, conf, result, run, schedVars>>

ReconciliateRulesets ==
    /\ phase = "rulesets"
    /\ IF RulesetsErr # NoErr
          THEN /\ result' = RulesetsErr
               /\ phase' = "rollback"
               /\ UNCHANGED <<mirror, remote, calls>>
          ELSE /\ Install(MediateAll(World, RulesetsOps(mirror,
                      KeyOrder(DOMAIN BuildLgrs(conf.rulesets, EmptyMap).lgrs
                                  \cup DOMAIN mirror.rulesets))))
               /\ phase' = NextPhase(phase)
               /\ UNCHANGED result
    /\ UNCHANGED <<local, conf, run, schedVars>>

\* Rollback without the return that follows it: Commit is reached as well
Rollback_FallsThrough ==
    /\ phase = "rollback"
    /\ Install(Mediate(World, Op("Rollback", <<result>>)))
    /\ phase' = "commit"
    /\ UNCHANGED <<local, conf, result, run, schedVars>>

\* r.Rollback(ctx, dryrun, err); return err
Rollback ==
    /\ phase = "rollback"
    /\ Install(Mediate(World, Op("Rollback", <<result>>)))
    /\ phase' = "done"
    /\ UNCHANGED <<local, conf, result, run, schedVars>>

\* r.Commit(ctx, dryrun); return nil
Commit ==
    /\ phase = "commit"
    /\ Install(Mediate(World, Op("Commit", <<>>)))
    /\ phase' = "done"
    /\ UNCHANGED <<local, conf, result, run, schedVars>>

\* the next reconciliation finds the organization as the Executor left it
NextRun ==
    /\ phase = "done"
    /\ run < MaxRuns
    /\ run' = run + 1
    /\ phase' = "start"
    /\ result' = NoErr
    /\ calls' = <<>>
    /\ mirror' = EmptyLive
    /\ UNCHANGED <<local, conf, remote, schedVars>>

RecNext ==
    \/ Begin
    \/ ReconciliateUsers
    \/ ReconciliateTeams
    \/ ReconciliateRepositories
    \/ ReconciliateRulesets
    \/ Rollback
    \/ Commit
    \/ NextRun

\* the values the reconciliation variables keep while the scheduler is checked
RecIdle ==
    /\ local = EmptyMap /\ conf = EmptyMap /\ remote = EmptyLive /\ mirror = EmptyLive
    /\ calls = <<>> /\ phase = "start" /\ result = NoErr /\ run = 1

SchedNext ==
    \/ Tick
    \/ TickStep
    \/ \E p \in Callers : Trigger(p)
    \/ \E p \in Callers : Enter(p)
    \/ \E p \in Callers : Wakeup(p)
    \/ \E p \in Callers : Run(p)
    \/ \E p \in Callers : Release(p)
    \/ \E p \in Callers : Returned(p)
    \/ \E p \in Callers : Record(p)

\* the scheduler and its callers
SchedStart == SchedInit /\ RecIdle
SchedSpec == SchedStart /\ [][SchedNext]_vars

\* the scheduler with the shutdown of Serve
ServeNext ==
    \/ SchedNext
    \/ OSSignal
    \/ RESTFailure
    \/ TickExit
\* every goroutine that can proceed eventually does, and every goliac.Apply
\* returns; triggers and the OS signal arrive when they want
ServeFair ==
    /\ WF_vars(TickStep)
    /\ WF_vars(TickExit)
    /\ \A p \in Callers :
          /\ WF_vars(Enter(p)) /\ WF_vars(Wakeup(p)) /\ WF_vars(Run(p))
          /\ WF_vars(Release(p)) /\ WF_vars(Returned(p)) /\ WF_vars(Record(p))
ServeSpec == SchedStart /\ [][ServeNext]_vars /\ ServeFair

\* consecutive Reconciliate runs
Init == RecInit /\ SchedInit /\ cfgGit = "set"
Spec == Init /\ [][RecNext]_vars

(***************************************************************************)
(* Scheduler claims                                                        *)
(***************************************************************************)
SkippedRet == [err |-> NoErr, applied |-> FALSE]
SchedFlags == <<applyCurrent, applyLobby>>
Outcome == <<lastSyncTime, lastSyncError>>

\* C1: single flight. In every reachable state at most one caller is between
\* the end of serveApply's entry section and its deferred release, that is, at
\* most one reconciliation (goliac.Apply) is in progress.
C1_SingleFlight == Cardinality(Running) <= 1

\* C1 witness: one caller runs, another is parked in the lobby and a third was
\* turned away as skipped.
C1_Witness ==
    /\ \E p \in Callers : pc[p] = "run"
    /\ \E q \in Callers : pc[q] = "wait"
    /\ \E r \in Callers : pc[r] = "returned" /\ ret[r] = SkippedRet

\* C2: at most one pending reconciliation. In every reachable state at most one
\* caller is parked in the lobby loop `for g.applyLobby { Wait() }`.
C2_AtMostOneWaiting == Cardinality(Waiting) <= 1

\* C3: lobby liveness, in the form a finite run refutes: the scheduler never
\* reaches a state where callers are parked in the lobby while no
\* reconciliation is running and no parked caller has been signalled (nobody
\* is left to clear the lobby and signal, so the parked callers never proceed).
C3_NoStuckLobby == ~(Waiting # {} /\ Running = {} /\ Woken = {})

\* C4: skipped call. A call that finds the lobby set goes straight from the
\* entry section to its return with (nil, false), never waits or runs, and
\* neither that step nor the rest of triggerApply changes applyCurrent,
\* applyLobby, lastSyncTime or lastSyncError; triggerApply only resets the
\* tick counter to the apply interval.
C4_SkippedCall ==
    [][\A p \in Callers :
         /\ (pc[p] = "call" /\ applyLobby /\ pc'[p] # "call")
               => /\ pc'[p] = "returned"
                  /\ ret'[p] = SkippedRet
                  /\ UNCHANGED <<SchedFlags, Outcome, syncInterval>>
         /\ (pc[p] = "returned" /\ ret[p] = SkippedRet /\ pc'[p] # "returned")
               => /\ pc'[p] = Rest(p)
                  /\ syncInterval' = ApplyInterval
                  /\ UNCHANGED <<SchedFlags, Outcome>>]_schedVars

\* C4 witness: a skipped call has returned from serveApply while an earlier run
\* has already recorded an outcome that the skipped call must leave alone.
C4_Witness ==
    \E p \in Callers :
        /\ pc[p] = "returned" /\ ret[p] = SkippedRet
        /\ applyLobby /\ applyCurrent
        /\ lastSyncTime # NoTime /\ lastSyncError # NoErr

\* C5: exit protocol. Whatever serveApply returns, a caller that acquired the
\* running slot leaves it only through the release step: with the lobby set the
\* lobby is cleared, a parked caller is signalled and applyCurrent stays true,
\* otherwise applyCurrent is cleared; before and after that step the caller does
\* not touch the two flags, so the release runs exactly once per call.
C5_ExitProtocol ==
    [][\A p \in Callers :
         /\ (pc[p] \in {"run", "exit"} /\ pc'[p] \notin {"run", "exit"})
               => /\ pc'[p] = "returned"
                  /\ IF applyLobby
                        THEN /\ ~applyLobby' /\ applyCurrent'
                             /\ Waiting # {} => \E w \in Waiting : pc'[w] = "woken"
                        ELSE ~applyCurrent' /\ ~applyLobby'
         /\ (pc[p] \in {"run", "returned", "record"} /\ pc'[p] # pc[p])
               => UNCHANGED SchedFlags]_schedVars

\* C5 witness: a caller whose apply failed has returned through the release
\* step, which handed the slot to a parked caller.
C5_Witness ==
    \E p \in Callers :
        /\ pc[p] = "returned" /\ ret[p].err \in ApplyErrs
        /\ applyCurrent /\ ~applyLobby /\ Woken # {}


\* the step in which triggerApply of caller p records the outcome of its run
Records(p) == pc[p] = "record" /\ pc'[p] # "record"
\* without a configured git repository or branch every run fails with the
\* same message: once that error is recorded, no later run is a new error
SameErrorAlertedOnce ==
    \A p \in Callers :
        (Records(p) /\ cfgGit # "set" /\ lastSyncError # NoErr) => ~notified'

\* C24: new-error alerting, in the case where every run fails with the same
\* message: over any interleaving of triggerApply calls, once a failed run
\* has recorded the error (and sent its notification), no later recording of
\* a run that failed with the same message sends a notification again.
C24_NewErrorAlerting == [][SameErrorAlertedOnce]_vars

\* C25: scheduler state is lock-protected. Every access to current, lobby,
\* lastSyncTime, lastSyncError and syncInterval happens under the scheduler
\* mutex, so no two callers are ever about to access the same field outside
\* the mutex at the same time.
C25_LockProtected ==
    \A p, q \in Callers :
        p # q => UnlockedAccesses(p) \cap UnlockedAccesses(q) = {}

\* C29: shutdown. After an OS termination signal has closed stopCh, the tick
\* loop eventually exits (and with it Serve returns), under fairness and with
\* every reconciliation terminating, whatever triggers are pending.
C29_Shutdown == stopCh ~> (pc[TickLoop] = "exited")

\* one step of triggerApply after serveApply has returned: a skipped call
\* goes back to rest with both fields as they were; any other call stores
\* the time, and then its own result
OutcomeTracked ==
    \A p \in Callers :
        /\ (pc[p] = "returned" /\ pc'[p] # "returned") =>
              IF ret[p] = SkippedRet
                 THEN /\ pc'[p] = Rest(p)
                      /\ lastSyncTime' = lastSyncTime
                      /\ lastSyncError' = lastSyncError
                 ELSE /\ pc'[p] = "record"
                      /\ lastSyncTime' = now
        /\ (pc[p] = "record" /\ pc'[p] # "record") =>
              /\ ret[p] # SkippedRet
              /\ lastSyncError' = ret[p].err
              /\ ret[p].applied => lastSyncError' = NoErr

\* C33: outcome tracking. Every triggerApply call that was not skipped sets
\* lastSyncTime to its completion time and lastSyncError to its own result
\* (nil after a successful run, the error after a failed one); a skipped
\* call changes neither field.
C33_OutcomeTracking == [][OutcomeTracked]_vars

\* C33 witness: a failed run has been recorded, and a call that was skipped
\* is about to return with the error still in place.
C33_Witness ==
    /\ lastSyncError # NoErr
    /\ lastSyncTime # NoTime
    /\ \E p \in Callers : pc[p] = "returned" /\ ret[p] = SkippedRet
    /\ \E q \in Callers : pc[q] = "record" /\ ret[q].applied

\* caller p is back from serveApply with the result of a reconciliation that
\* triggerApply has not stored in lastSyncError yet
HoldsResult(p) == pc[p] \in {"returned", "record"} /\ ret[p] # SkippedRet

\* C37: latest result wins. Under any interleaving of concurrent
\* triggerApply calls, once all calls have returned, lastSyncError and
\* lastSyncTime are those of the reconciliation that finished last: the
\* result of an earlier reconciliation never overwrites that of a later
\* one. Two callers therefore never both hold a different result still to be
\* stored, since from such a state the caller whose reconciliation finished
\* first is free to store its result last.
C37_LatestResultWins ==
    \A p, q \in Callers :
        (p # q /\ HoldsResult(p) /\ HoldsResult(q)) => ret[p].err = ret[q].err

\* caller p is inside serveApply: between its entry and the end of the
\* deferred function
InServeApply(p) == pc[p] \in {"call", "wait", "woken", "run", "exit"}

\* C38: flag accuracy. In every reachable state applyCurrent is true
\* whenever a reconciliation is running or a caller is in the lobby,
\* applyLobby is true only while applyCurrent is true, and whenever no
\* serveApply call is in progress both flags are false.
C38_FlagAccuracy ==
    /\ (Running \cup Waiting \cup Woken # {}) => applyCurrent
    /\ applyLobby => applyCurrent
    /\ (\A p \in Callers : ~InServeApply(p)) => (~applyCurrent /\ ~applyLobby)

\* C38 witness: a run has been recorded and released both flags, and a new
\* call is the only one in progress, running with applyCurrent set.
C38_Witness ==
    /\ lastSyncTime # NoTime
    /\ \E p \in Callers :
          /\ pc[p] = "run"
          /\ \A q \in Callers \ {p} : ~InServeApply(q)
    /\ applyCurrent /\ ~applyLobby

\* a second witness of C38: a caller is parked in the lobby while a
\* reconciliation runs, both flags set
C38_LobbyCase ==
    /\ applyCurrent /\ applyLobby
    /\ Waiting # {}
    /\ \E p \in Callers : pc[p] = "run"

\* C39: stop channel closed once. In every execution of Serve the stop
\* channel is closed at most one time: a failure of the REST server, which
\* closes it, followed by an OS termination signal, which also closes it,
\* never results in a second close.
C39_StopClosedOnce == Cardinality(closedBy) <= 1

(***************************************************************************)
(* Reconciliation claims                                                   *)
(***************************************************************************)
Passes == {"users", "teams", "repos", "rulesets"}
\* the pass a mediator operation belongs to
PassOf(name) ==
    CASE name \in UserOps -> 1
      [] name \in TeamOps -> 2
      [] name \in RepoOps -> 3
      [] name \in RulesetOps -> 4
      [] OTHER -> 0
Mutations == SelectSeq(calls, LAMBDA c : c.name \notin EnvelopeOps)
CallsNamed(q, names) == {i \in 1..Len(q) : q[i].name \in names}

\* C6: strict pass order. Among the operations issued in one Reconciliate
\* call, no operation of a later pass precedes an operation of an earlier
\* pass: users, then teams, then repositories, then rulesets.
C6_StrictPassOrder ==
    \A i, j \in 1..Len(Mutations) :
        i < j => PassOf(Mutations[i].name) <= PassOf(Mutations[j].name)

\* C6 witness: a finished reconciliation that issued operations of all four
\* passes.
C6_Witness ==
    /\ phase = "done"
    /\ \A n \in 1..4 : \E i \in 1..Len(Mutations) : PassOf(Mutations[i].name) = n

\* C7: transaction envelope. With an Executor attached, once Reconciliate has
\* started the first Executor call is Begin(dryrun) and it is the only Begin;
\* Commit or Rollback is only ever the last Executor call; and when
\* Reconciliate has returned the last call is Commit(dryrun) if it returns nil
\* and Rollback(dryrun, err) if it returns err.
C7_Envelope ==
    (conf.executor /\ phase # "start") =>
        LET n == Len(Forwarded) IN
        /\ n >= 1
        /\ Forwarded[1].name = "Begin" /\ Forwarded[1].dryrun = conf.dryrun
        /\ CallsNamed(Forwarded, {"Begin"}) = {1}
        /\ CallsNamed(Forwarded, {"Commit", "Rollback"}) =
              (IF phase = "done" THEN {n} ELSE {})
        /\ phase = "done" =>
              /\ Forwarded[n].dryrun = conf.dryrun
              /\ IF result = NoErr
                    THEN Forwarded[n].name = "Commit" /\ Forwarded[n].args = <<>>
                    ELSE Forwarded[n].name = "Rollback" /\ Forwarded[n].args = <<result>>

\* C7 witness: a reconciliation that forwarded mutations, then failed in the
\* rulesets pass and ended with Rollback carrying the error.
C7_Witness ==
    /\ phase = "done" /\ conf.executor /\ result = ErrRegexp
    /\ ForwardedMutations # <<>>
    /\ Forwarded[Len(Forwarded)].name = "Rollback"

\* C8: idempotence. When the Executor applies every forwarded mutation to the
\* live state, a later Reconciliate run with the same declared state forwards
\* no mutation.
C8_Idempotence ==
    (run >= 2 /\ conf.executor /\ ~conf.dryrun) => ForwardedMutations = <<>>

\* C9: identity law. While the live state seen by the passes is exactly the
\* declared state materialized as live (no rulesets configured, no everyone
\* team), a pass issues no operation.
C9_IdentityLaw ==
    [][(/\ phase \in Passes
        /\ ~conf.everyoneTeamEnabled /\ conf.rulesets = <<>>
        /\ mirror = Materialized(local, conf.teamsreponame, mirror.enterprise))
          => calls' = calls]_vars

\* whether the repository configuration allows a destructive operation
Allowed(name) ==
    CASE name = "RemoveUserFromOrg" -> conf.allowDestructiveUsers
      [] name = "DeleteTeam" -> conf.allowDestructiveTeams
      [] name = "DeleteRepository" -> conf.allowDestructiveRepositories
      [] name = "DeleteRuleset" -> conf.allowDestructiveRulesets
\* the live entities of a pass that the declared state does not have
ToRemove(name) ==
    CASE name = "RemoveUserFromOrg" /\ phase = "users" ->
            mirror.users \ {local.users[n] : n \in DOMAIN local.users}
      [] name = "DeleteTeam" /\ phase = "teams" ->
            DOMAIN mirror.teams \
               ({Slug(t) : t \in DOMAIN local.teams}
                  \cup {Slug(t) \o "-owners" : t \in DOMAIN local.teams}
                  \cup (IF conf.everyoneTeamEnabled THEN {"everyone"} ELSE {}))
      [] name = "DeleteRepository" /\ phase = "repos" ->
            DOMAIN mirror.repos \ {Slug(r) : r \in DOMAIN local.repos}
      [] name = "DeleteRuleset" /\ phase = "rulesets" /\ RulesetsErr = NoErr ->
            {mirror.rulesets[k].id :
                k \in DOMAIN mirror.rulesets \
                        {local.rulesets[conf.rulesets[i].ruleset].name :
                            i \in 1..Len(conf.rulesets)}}
      [] OTHER -> {}
\* the calls one pass adds to the log
NewCalls == SubSeq(calls', Len(calls) + 1, Len(calls'))

\* the destructive calls the Executor receives in one pass are one per entity
\* to remove when allowed, and none otherwise
GatedPass ==
    phase \in Passes =>
        \A name \in DestructiveOps :
           LET got == SelectSeq(NewCalls, LAMBDA c : c.forwarded /\ c.name = name)
               want == IF Allowed(name) /\ conf.executor THEN ToRemove(name) ELSE {}
           IN /\ Len(got) = Cardinality(want)
              /\ {got[i].args[1] : i \in 1..Len(got)} = want

\* C10: policy gating towards the Executor. In every pass, the destructive
\* calls the Executor receives are none when the matching allowDestructive
\* flag is false, and exactly one per live entity the declared state does not
\* have when the flag is true and an Executor is attached.
C10_PolicyGating == [][GatedPass]_vars

\* C10 witness: one reconciliation in which the Executor received a
\* DeleteTeam (teams flag true) while a DeleteRepository was withheld
\* (repositories flag false).
C10_Witness ==
    /\ phase = "done"
    /\ conf.allowDestructiveTeams /\ ~conf.allowDestructiveRepositories
    /\ \E i \in 1..Len(calls) : calls[i].name = "DeleteTeam" /\ calls[i].forwarded
    /\ \E i \in 1..Len(calls) : calls[i].name = "DeleteRepository" /\ ~calls[i].forwarded

(***************************************************************************)
(* Mediator and pass claims                                                *)
(***************************************************************************)
\* the destructive operations that take the mirror
MirrorGated == {"RemoveUserFromOrg", "DeleteTeam", "DeleteRepository"}
\* whether the live state m still has the entity call c is about
EntityIn(m, c) ==
    CASE c.name = "RemoveUserFromOrg" -> c.args[1] \in m.users
      [] c.name = "DeleteTeam" -> c.args[1] \in DOMAIN m.teams
      [] c.name = "DeleteRepository" -> c.args[1] \in DOMAIN m.repos
\* every call of a pass that a destructive flag withholds is neither logged nor
\* applied to the mirror, and the mirror keeps the entity
GatedUntouched ==
    phase \in Passes =>
        \A i \in 1..Len(NewCalls) :
           (NewCalls[i].name \in MirrorGated /\ ~Allowed(NewCalls[i].name))
              => /\ ~NewCalls[i].logged
                 /\ ~NewCalls[i].mirrored
                 /\ EntityIn(mirror', NewCalls[i])

\* C11: gated destructive operations leave the mirror untouched. When the
\* matching allowDestructive flag is false, a RemoveUserFromOrg, DeleteTeam or
\* DeleteRepository writes no log line and does not update the mirror, so the
\* mirror still has the user, team or repository after the pass.
C11_GatedLeaveMirror == [][GatedUntouched]_vars

\* the declared state of each entity class, as the mirror should show it
DeclaredUserIds == {local.users[n] : n \in DOMAIN local.users}
DeclaredLiveTeams ==
    LET ts == MaterializedTeams(local.users, local.teams) IN
    IF conf.everyoneTeamEnabled
       THEN Put(ts, "everyone", NewTeam("everyone", DeclaredUserIds))
       ELSE ts
DeclaredLiveRepos == BuildLRepos(SetToSeq(DOMAIN local.repos), EmptyMap)
DeclaredLiveRulesets == BuildLgrs(conf.rulesets, EmptyMap).lgrs
\* the mirror has every declared entity of a class, and nothing else unless the
\* destructive flag of the class withheld the removal
UsersAgree ==
    /\ DeclaredUserIds \subseteq mirror.users
    /\ conf.allowDestructiveUsers => mirror.users \subseteq DeclaredUserIds
TeamsAgree ==
    /\ \A k \in DOMAIN DeclaredLiveTeams :
          k \in DOMAIN mirror.teams
             /\ mirror.teams[k].members = DeclaredLiveTeams[k].members
    /\ conf.allowDestructiveTeams => DOMAIN mirror.teams \subseteq DOMAIN DeclaredLiveTeams
ReposAgree ==
    /\ \A k \in DOMAIN DeclaredLiveRepos :
          k \in DOMAIN mirror.repos
             /\ compareRepos(DeclaredLiveRepos[k], LiveRepo(mirror, k))
    /\ conf.allowDestructiveRepositories
          => DOMAIN mirror.repos \subseteq DOMAIN DeclaredLiveRepos
RulesetsAgree ==
    /\ \A k \in DOMAIN DeclaredLiveRulesets :
          k \in DOMAIN mirror.rulesets
             /\ compareRulesets(DeclaredLiveRulesets[k], mirror.rulesets[k])
    /\ conf.allowDestructiveRulesets
          => DOMAIN mirror.rulesets \subseteq DOMAIN DeclaredLiveRulesets

\* C12: mirror consistency. When a pass has completed, the mirror's view of
\* its entity class equals the declared state, except for the entities whose
\* removal a destructive gate suppressed: users after the users pass, teams
\* after the teams pass, repositories after the repositories pass, rulesets
\* after the rulesets pass.
C12_MirrorConsistency ==
    /\ phase = "teams" => UsersAgree
    /\ phase = "repos" => TeamsAgree
    /\ phase \in {"rulesets", "commit"} => ReposAgree
    /\ (phase = "commit" /\ mirror.enterprise) => RulesetsAgree

\* the positions of an effect in the steps of a mediator method
StepsOf(c, effect) ==
    LET st == Steps(Op(c.name, c.args)) IN {j \in 1..Len(st) : st[j] = effect}

\* C13: mirror-then-Executor. Every mutation issued through the mediator that
\* no destructive gate withholds is applied to the mirror, and that happens
\* before the Executor is called, in dry-run and in real mode alike.
C13_MirrorThenExecutor ==
    \A i \in 1..Len(Mutations) :
       LET c == Mutations[i] IN
       (c.name \in DestructiveOps => Allowed(c.name))
          => /\ c.mirrored
             /\ StepsOf(c, "mirror") # {}
             /\ \A j \in StepsOf(c, "mirror"), k \in StepsOf(c, "executor") : j < k

\* one whole Reconciliate call on the current live state with the given
\* dryrun argument: the final mirror, remote and calls
FullRun(dryrun) ==
    LET w0 == MediateWith([mirror |-> remote, remote |-> remote, calls |-> <<>>],
                          Op("Begin", <<>>), dryrun)
        w1 == MediateAllWith(w0, UsersOps(w0.mirror, KeyOrder(UnseenUsers(w0.mirror))),
                             dryrun)
        teamOrder == SetToSeq(DOMAIN local.teams)
        w2 == MediateAllWith(w1, TeamsOps(w1.mirror, teamOrder,
                  KeyOrder(DOMAIN SlugTeams(teamOrder) \cup DOMAIN w1.mirror.teams)), dryrun)
        repoOrder == SetToSeq(DOMAIN local.repos)
        w3 == MediateAllWith(w2, ReposOps(w2.mirror, repoOrder,
                  KeyOrder(DOMAIN BuildLRepos(repoOrder, EmptyMap)
                              \cup DOMAIN w2.mirror.repos)), dryrun)
        w4 == MediateAllWith(w3, RulesetsOps(w3.mirror,
                  KeyOrder(DOMAIN BuildLgrs(conf.rulesets, EmptyMap).lgrs
                              \cup DOMAIN w3.mirror.rulesets)), dryrun)
    IN IF ~remote.enterprise THEN MediateWith(w3, Op("Commit", <<>>), dryrun)
       ELSE IF RulesetsErr # NoErr
               THEN MediateWith(w3, Op("Rollback", <<RulesetsErr>>), dryrun)
       ELSE MediateWith(w4, Op("Commit", <<>>), dryrun)
\* a sequence of calls without the dryrun argument
Operations(cs) ==
    [i \in 1..Len(cs) |-> [name |-> cs[i].name, args |-> cs[i].args,
                           logged |-> cs[i].logged, mirrored |-> cs[i].mirrored,
                           forwarded |-> cs[i].forwarded]]

\* C14: dry-run purity. On the same declared state, live state and
\* configuration, Reconciliate with dryrun=true and with dryrun=false issue the
\* same sequence of operations with the same arguments and end with the same
\* mirror; every Executor call, Begin/Commit/Rollback included, carries the
\* dryrun value of the run. (A run that left the live state alone is the run
\* FullRun computes.)
C14_DryRunPurity ==
    /\ \A i \in 1..Len(Forwarded) : Forwarded[i].dryrun = conf.dryrun
    /\ phase = "start" =>
          LET dry == FullRun(TRUE)
              real == FullRun(FALSE)
          IN /\ Operations(dry.calls) = Operations(real.calls)
             /\ dry.mirror = real.mirror
             /\ \A i \in 1..Len(dry.calls) : dry.calls[i].dryrun
             /\ \A i \in 1..Len(real.calls) : ~real.calls[i].dryrun
    /\ (phase = "done" /\ (conf.dryrun \/ ~conf.executor)) =>
          LET same == FullRun(conf.dryrun)
          IN calls = same.calls /\ mirror = same.mirror

\* C14 witness: a finished dry run with an Executor that received mutations,
\* its mirror changed and the live state untouched.
C14_Witness ==
    /\ phase = "done" /\ conf.dryrun /\ conf.executor
    /\ ForwardedMutations # <<>>
    /\ mirror # remote

\* the calls of a pass with the given name and arguments
NewCallsOf(name, args) ==
    {i \in 1..Len(NewCalls) : NewCalls[i].name = name /\ NewCalls[i].args = args}
NewCallsNamed(name) == {i \in 1..Len(NewCalls) : NewCalls[i].name = name}
\* the declared users whose identifier is not live
AbsentUsers == {n \in DOMAIN local.users : local.users[n] \notin mirror.users}

\* every declared user whose identifier is absent live is added under that
\* identifier, and the mirror has the identifier after the pass
UsersAdded ==
    phase = "users" =>
        \A n \in AbsentUsers :
           /\ NewCallsOf("AddUserToOrg", <<local.users[n]>>) # {}
           /\ local.users[n] \in mirror'.users

\* C15: users pass, addition. For each declared user whose external identifier
\* is absent from the live user set, the users pass emits AddUserToOrg with
\* that declared identifier, and after the pass the mirror's users contain it.
C15_UsersAddition == [][UsersAdded]_vars

\* a live identifier some declared user carries causes no call; the pass adds
\* once per declared user whose identifier is absent, and removes once per live
\* identifier no declared user carries
UsersSeenUnseen ==
    phase = "users" =>
        /\ \A id \in mirror.users \cap DeclaredUserIds :
              /\ NewCallsOf("AddUserToOrg", <<id>>) = {}
              /\ NewCallsOf("RemoveUserFromOrg", <<id>>) = {}
        /\ Cardinality(NewCallsNamed("AddUserToOrg")) = Cardinality(AbsentUsers)
        /\ \A id \in mirror.users \ DeclaredUserIds :
              Cardinality(NewCallsOf("RemoveUserFromOrg", <<id>>)) = 1
        /\ Cardinality(NewCallsNamed("RemoveUserFromOrg"))
              = Cardinality(mirror.users \ DeclaredUserIds)

\* C16: users pass, seen and unseen. A live identifier equal to the identifier
\* of at least one declared user triggers neither AddUserToOrg nor
\* RemoveUserFromOrg, also when several declared users carry it; every live
\* identifier no declared user matches triggers exactly one RemoveUserFromOrg.
C16_UsersSeenUnseen == [][UsersSeenUnseen]_vars

\* the team keys the teams pass finds both declared and live
DeclaredTeamsNow == SlugTeams(SetToSeq(DOMAIN local.teams))
CommonTeams == DOMAIN DeclaredTeamsNow \cap DOMAIN mirror.teams
\* the external identifiers of the declared members of team key k
WantedMembers(k) == IdsOf(local.users, Elems(DeclaredTeamsNow[k].members))
\* the arguments of the calls of a pass with the given name about key k
NewArgsAbout(name, k) ==
    {NewCalls[i].args : i \in {j \in NewCallsNamed(name) : NewCalls[j].args[1] = k}}
NewCountAbout(name, k) ==
    Cardinality({j \in NewCallsNamed(name) : NewCalls[j].args[1] = k})

\* for a team key both declared and live: one removal per live member that is
\* no declared member's identifier, one addition with role "member" per
\* declared identifier that is no live member, no creation and no deletion
TeamMembersDiffed ==
    phase = "teams" =>
        \A k \in CommonTeams :
           LET toRemove == mirror.teams[k].members \ WantedMembers(k)
               toAdd == WantedMembers(k) \ mirror.teams[k].members
           IN /\ NewArgsAbout("UpdateTeamRemoveMember", k) = {<<k, id>> : id \in toRemove}
              /\ NewCountAbout("UpdateTeamRemoveMember", k) = Cardinality(toRemove)
              /\ NewArgsAbout("UpdateTeamAddMember", k) = {<<k, id, "member">> : id \in toAdd}
              /\ NewCountAbout("UpdateTeamAddMember", k) = Cardinality(toAdd)
              /\ NewCountAbout("CreateTeam", k) = 0
              /\ NewCountAbout("DeleteTeam", k) = 0

\* C17: team member diff. For a team key present in both declared and live
\* state the teams pass emits UpdateTeamRemoveMember(slug, id) exactly for the
\* live members that are not the identifier of a declared member,
\* UpdateTeamAddMember(slug, id, "member") exactly for the declared members'
\* identifiers that are not live members, and never CreateTeam or DeleteTeam.
C17_TeamMemberDiff == [][TeamMembersDiffed]_vars

\* a team key both declared and live gets member operations exactly when its
\* declared members' identifiers differ from its live members
TeamChangeOnIds ==
    phase = "teams" =>
        \A k \in CommonTeams :
           (WantedMembers(k) # mirror.teams[k].members)
              <=> (NewCountAbout("UpdateTeamAddMember", k)
                      + NewCountAbout("UpdateTeamRemoveMember", k) > 0)

\* C18: team equality is decided on member identifiers. A team present in both
\* declared and live state is treated as changed exactly when its declared
\* members' external identifiers differ from the live member identifiers:
\* whenever they differ the member operations are emitted, also when a
\* declared logical name equals a live identifier.
C18_TeamEqualityOnIds == [][TeamChangeOnIds]_vars

\* the repository keys the repositories pass finds both declared and live
CommonRepos == DOMAIN DeclaredLiveRepos \cap DOMAIN mirror.repos
\* the calls of the pass about repository k
RepoCallsAbout(k) ==
    {i \in 1..Len(NewCalls) : NewCalls[i].name \in RepoOps /\ NewCalls[i].args[1] = k}
\* declared and live repository k have the same team and external-user access
SameAccess(k) ==
    LET l == DeclaredLiveRepos[k]
        r == LiveRepo(mirror, k)
    IN /\ l.readers = r.readers /\ l.writers = r.writers
       /\ l.externalUserReaders = r.externalUserReaders
       /\ l.externalUserWriters = r.externalUserWriters
\* a repository that differs from its live counterpart in one flag only gets
\* exactly the one operation that sets the flag to its declared value
OneFlagOneOperation ==
    phase = "repos" =>
        \A k \in CommonRepos :
           LET l == DeclaredLiveRepos[k]
               r == LiveRepo(mirror, k)
           IN /\ (SameAccess(k) /\ l.isArchived # r.isArchived /\ l.isPublic = r.isPublic)
                    => /\ Cardinality(RepoCallsAbout(k)) = 1
                       /\ NewCallsOf("UpdateRepositoryUpdateArchived",
                                     <<k, l.isArchived>>) # {}
              /\ (SameAccess(k) /\ l.isPublic # r.isPublic /\ l.isArchived = r.isArchived)
                    => /\ Cardinality(RepoCallsAbout(k)) = 1
                       /\ NewCallsOf("UpdateRepositoryUpdatePrivate",
                                     <<k, ~l.isPublic>>) # {}

\* C19: single-attribute change. When a declared repository differs from its
\* live counterpart in exactly one boolean flag and in nothing else, the
\* repositories pass emits exactly one operation for it:
\* UpdateRepositoryUpdateArchived(repo, declared archived) or
\* UpdateRepositoryUpdatePrivate(repo, not declared public).
C19_SingleAttributeChange == [][OneFlagOneOperation]_vars

\* C19 witness: a repositories pass has run whose only operation is
\* UpdateRepositoryUpdateArchived(svc-a, TRUE): svc-a was live, not archived,
\* and declared archived with everything else equal.
C19_Witness ==
    /\ phase \in {"rulesets", "commit"}
    /\ Cardinality(CallsNamed(calls, RepoOps)) = 1
    /\ \E i \in 1..Len(calls) :
          calls[i].name = "UpdateRepositoryUpdateArchived"
             /\ calls[i].args = <<"svc-a", TRUE>>
    /\ "svc-a" \in DOMAIN mirror.repos /\ mirror.repos["svc-a"].isArchived

\* an external user that changes role is set to the new permission once and
\* never removed; one that is declared in no list is removed once
ExternalUsersCrossChecked ==
    phase = "repos" =>
        \A k \in CommonRepos :
           \A id \in DOMAIN mirror.repos[k].externalUsers :
              LET perm == mirror.repos[k].externalUsers[id]
                  l == DeclaredLiveRepos[k]
                  reader == BagIn(id, l.externalUserReaders)
                  writer == BagIn(id, l.externalUserWriters)
                  removed == NewCallsOf("UpdateRepositoryRemoveExternalUser", <<k, id>>)
              IN /\ (perm = "READ" /\ writer)
                    => /\ Cardinality(NewCallsOf("UpdateRepositorySetExternalUser",
                                                 <<k, id, "push">>)) = 1
                       /\ removed = {}
                 /\ (perm = "WRITE" /\ reader)
                    => /\ Cardinality(NewCallsOf("UpdateRepositorySetExternalUser",
                                                 <<k, id, "pull">>)) = 1
                       /\ removed = {}
                 /\ (~reader /\ ~writer) => Cardinality(removed) = 1

\* C20: external-user cross-check. An external user of a repository that is
\* live READ and declared writer (or live WRITE and declared reader) gets
\* UpdateRepositorySetExternalUser(repo, id, new permission) exactly once and
\* no UpdateRepositoryRemoveExternalUser(repo, id); an external user that is
\* live but declared in neither list gets exactly one
\* UpdateRepositoryRemoveExternalUser.
C20_ExternalUserCrossCheck == [][ExternalUsersCrossChecked]_vars

\* C20 witness: a dry run whose repositories pass has promoted gh-xu, live
\* READ on svc-a and declared writer, with one UpdateRepositorySetExternalUser
\* and no UpdateRepositoryRemoveExternalUser.
C20_Witness ==
    /\ phase \in {"rulesets", "commit"}
    /\ conf.dryrun
    /\ "svc-a" \in DOMAIN remote.repos /\ "svc-a" \in DOMAIN local.repos
    /\ "gh-xu" \in DOMAIN remote.repos["svc-a"].externalUsers
    /\ remote.repos["svc-a"].externalUsers["gh-xu"] = "READ"
    /\ "xu" \in local.repos["svc-a"].externalUserWriters
    /\ Cardinality({i \in 1..Len(calls) :
                       calls[i].name = "UpdateRepositorySetExternalUser"
                          /\ calls[i].args = <<"svc-a", "gh-xu", "push">>}) = 1
    /\ CallsNamed(calls, {"UpdateRepositoryRemoveExternalUser"}) = {}

\* ---------------------------------------------------------------------
\* Repository order, ruleset errors, enterprise gate
\* ---------------------------------------------------------------------

\* the position of a repository operation in the order of onChanged:
\* visibility, archived flag, reader teams, writer teams, external users
RankOf(c, k) ==
    CASE c.name = "UpdateRepositoryUpdatePrivate" -> 1
      [] c.name = "UpdateRepositoryUpdateArchived" -> 2
      [] c.name = "UpdateRepositoryAddTeamAccess" ->
            IF c.args[3] = "pull" THEN 3 ELSE 4
      [] c.name = "UpdateRepositoryRemoveTeamAccess" ->
            IF BagIn(c.args[2], LiveRepo(mirror, k).readers) THEN 3 ELSE 4
      [] c.name \in {"UpdateRepositoryRemoveExternalUser",
                     "UpdateRepositorySetExternalUser"} -> 5
      [] OTHER -> 0
\* the operations of the pass about a repository declared and live come in
\* the order of their ranks
RepoOpsInOrder ==
    phase = "repos" =>
        \A k \in CommonRepos :
           \A i, j \in RepoCallsAbout(k) :
              i < j => /\ RankOf(NewCalls[i], k) > 0
                       /\ RankOf(NewCalls[i], k) <= RankOf(NewCalls[j], k)

\* C21: fixed intra-repository order. For one changed repository the
\* operations are emitted in this order: UpdateRepositoryUpdatePrivate, then
\* UpdateRepositoryUpdateArchived, then the reader team-access additions and
\* removals, then the writer team-access additions and removals, then the
\* external-user removals and sets.
C21_RepoOperationOrder == [][RepoOpsInOrder]_vars

\* C21 witness: a repositories pass has changed visibility, archived flag,
\* team access and external-user access of the live repository svc-a.
C21_Witness ==
    /\ phase \in {"rulesets", "commit"}
    /\ CallsNamed(calls, {"CreateRepository"}) = {}
    /\ \A n \in {"UpdateRepositoryUpdatePrivate", "UpdateRepositoryUpdateArchived",
                 "UpdateRepositoryAddTeamAccess", "UpdateRepositoryRemoveTeamAccess",
                 "UpdateRepositorySetExternalUser"} :
          \E i \in 1..Len(calls) : calls[i].name = n /\ calls[i].args[1] = "svc-a"

\* the configured ruleset entries that cannot be used: pattern that does not
\* compile, or name of a ruleset nobody declared
BadEntries ==
    {i \in 1..Len(conf.rulesets) :
        \/ CompileFails(conf.rulesets[i].pattern)
        \/ conf.rulesets[i].ruleset \notin DOMAIN local.rulesets}
\* the error of the first such entry
FirstBadEntryErr ==
    LET i == CHOOSE x \in BadEntries : \A y \in BadEntries : x <= y
    IN IF CompileFails(conf.rulesets[i].pattern) THEN ErrRegexp ELSE ErrNoRuleset
\* on an enterprise platform the rulesets pass follows the repositories pass;
\* with a bad entry it returns the error and issues nothing; Rollback(err)
\* is then the last call, and nothing forwarded before is touched
RulesetsFailFast ==
    /\ (phase = "repos" /\ remote.enterprise) => phase' = "rulesets"
    /\ (phase = "rulesets" /\ BadEntries # {})
          => /\ phase' = "rollback"
             /\ result' = FirstBadEntryErr
             /\ calls' = calls /\ remote' = remote /\ mirror' = mirror
    /\ phase = "rollback"
          => /\ phase' = "done"
             /\ result' = result
             /\ remote' = remote
             /\ Len(calls') = Len(calls) + 1
             /\ SubSeq(calls', 1, Len(calls)) = calls
             /\ calls'[Len(calls')].name = "Rollback"
             /\ calls'[Len(calls')].args = <<result>>
             /\ calls'[Len(calls')].dryrun = conf.dryrun
             /\ calls'[Len(calls')].forwarded = conf.executor
             /\ CallsNamed(calls', {"Commit"} \cup RulesetOps) = {}

\* C22: ruleset configuration errors are fail-fast without compensation. On
\* an enterprise platform, a configured ruleset entry with an invalid pattern
\* or an undefined ruleset name makes Reconciliate return that error and
\* call Rollback(dryrun, err), never Commit; no AddRuleset, UpdateRuleset or
\* DeleteRuleset is issued, and the user, team and repository operations
\* already forwarded are left as they are.
C22_RulesetErrorsFailFast == [][RulesetsFailFast]_vars

\* C22 witness: a real run on an enterprise platform that forwarded
\* operations of the earlier passes has ended with the configuration error
\* after Rollback.
C22_Witness ==
    /\ phase = "done"
    /\ remote.enterprise /\ BadEntries # {}
    /\ result = FirstBadEntryErr
    /\ conf.executor /\ ~conf.dryrun
    /\ Len(ForwardedMutations) > 0
    /\ calls[Len(calls)].name = "Rollback"

\* C23: enterprise gate. When the live platform reports IsEnterprise() =
\* false the rulesets pass does not run: no AddRuleset, UpdateRuleset or
\* DeleteRuleset is issued, an invalid pattern or an undefined ruleset name
\* in the configuration causes no error, and the reconciliation ends with
\* Commit.
C23_EnterpriseGate ==
    ~remote.enterprise =>
        /\ phase \notin {"rulesets", "rollback"}
        /\ result = NoErr
        /\ CallsNamed(calls, RulesetOps \cup {"Rollback"}) = {}
        /\ phase = "done" => calls[Len(calls)].name = "Commit"

\* C23 witness: a run on a platform that is not enterprise, with a bad
\* ruleset entry in the configuration and live rulesets, has ended with Commit.
C23_Witness ==
    /\ phase = "done"
    /\ ~remote.enterprise
    /\ BadEntries # {}
    /\ DOMAIN remote.rulesets # {}
    /\ calls[Len(calls)].name = "Commit"

\* ---------------------------------------------------------------------
\* Determinism, empty declared state, optional Executor, team pairs
\* ---------------------------------------------------------------------

\* a sequence of operations as a multiset
OpsBag(ops) ==
    [o \in {ops[i] : i \in 1..Len(ops)} |-> Cardinality({i \in 1..Len(ops) : ops[i] = o})]
\* the multisets of operations the teams pass can emit in the current state,
\* over every order of the declared teams and every order of the compared keys
TeamsBags ==
    {OpsBag(TeamsOps(mirror, teamOrder, keyOrder)) :
        teamOrder \in Perms(DOMAIN local.teams),
        keyOrder \in Perms(DOMAIN SlugTeams(SetToSeq(DOMAIN local.teams))
                              \cup DOMAIN mirror.teams)}
\* the same for the repositories pass
ReposBags ==
    {OpsBag(ReposOps(mirror, repoOrder, keyOrder)) :
        repoOrder \in Perms(DOMAIN local.repos),
        keyOrder \in Perms(DOMAIN BuildLRepos(SetToSeq(DOMAIN local.repos), EmptyMap)
                              \cup DOMAIN mirror.repos)}

\* C26: determinism of the operation set. For fixed declared state, live
\* state and configuration, the multiset of operations a pass emits is the
\* same for every iteration order of the declared and live maps, also when
\* two declared team names (or a team name and another team's "-owners"
\* sibling) map to the same slug.
C26_OperationSetDeterminism ==
    /\ phase = "teams" => Cardinality(TeamsBags) = 1
    /\ phase = "repos" => Cardinality(ReposBags) = 1

\* nothing is declared and the everyone team is disabled
EmptyDeclared ==
    /\ DOMAIN local.users = {} /\ DOMAIN local.teams = {} /\ DOMAIN local.repos = {}
    /\ ~conf.everyoneTeamEnabled
\* the calls of the pass are exactly one call name(k) per element k of live,
\* and each reaches the Executor iff one is attached and the flag allows it
OnePerLive(name, live, flag) ==
    /\ Len(NewCalls) = Cardinality(live)
    /\ \A k \in live : Cardinality(NewCallsOf(name, <<k>>)) = 1
    /\ \A i \in 1..Len(NewCalls) : NewCalls[i].forwarded = (conf.executor /\ flag)
\* with nothing declared every pass removes every live entity of its class
EverythingRemoved ==
    EmptyDeclared =>
        /\ phase = "users"
              => OnePerLive("RemoveUserFromOrg", mirror.users, conf.allowDestructiveUsers)
        /\ phase = "teams"
              => OnePerLive("DeleteTeam", DOMAIN mirror.teams, conf.allowDestructiveTeams)
        /\ phase = "repos"
              => OnePerLive("DeleteRepository", DOMAIN mirror.repos,
                            conf.allowDestructiveRepositories)

FullRunOn(dryrun, executor) ==
    LET w0 == MediateOn([mirror |-> remote, remote |-> remote, calls |-> <<>>],
                        Op("Begin", <<>>), dryrun, executor)
        w1 == MediateAllOn(w0, UsersOps(w0.mirror, KeyOrder(UnseenUsers(w0.mirror))),
                           dryrun, executor)
        teamOrder == SetToSeq(DOMAIN local.teams)
        w2 == MediateAllOn(w1, TeamsOps(w1.mirror, teamOrder,
                  KeyOrder(DOMAIN SlugTeams(teamOrder) \cup DOMAIN w1.mirror.teams)),
                  dryrun, executor)
        repoOrder == SetToSeq(DOMAIN local.repos)
        w3 == MediateAllOn(w2, ReposOps(w2.mirror, repoOrder,
                  KeyOrder(DOMAIN BuildLRepos(repoOrder, EmptyMap)
                              \cup DOMAIN w2.mirror.repos)), dryrun, executor)
        w4 == MediateAllOn(w3, RulesetsOps(w3.mirror,
                  KeyOrder(DOMAIN BuildLgrs(conf.rulesets, EmptyMap).lgrs
                              \cup DOMAIN w3.mirror.rulesets)), dryrun, executor)
        failed == remote.enterprise /\ RulesetsErr # NoErr
        w == IF ~remote.enterprise THEN MediateOn(w3, Op("Commit", <<>>), dryrun, executor)
             ELSE IF failed
                     THEN MediateOn(w3, Op("Rollback", <<RulesetsErr>>), dryrun, executor)
             ELSE MediateOn(w4, Op("Commit", <<>>), dryrun, executor)
    IN [mirror |-> w.mirror, remote |-> w.remote, calls |-> w.calls,
        result |-> IF failed THEN RulesetsErr ELSE NoErr]
\* a sequence of calls without the mark of what reached the Executor
Intents(cs) ==
    [i \in 1..Len(cs) |-> [name |-> cs[i].name, args |-> cs[i].args,
                           logged |-> cs[i].logged, mirrored |-> cs[i].mirrored]]

\* C28: optional Executor. With no Executor attached Reconciliate runs all
\* passes (the same mediator calls as with one), makes no Executor call (no
\* Begin, Commit, Rollback or mutation), leaves the live state alone, and
\* ends with the same mirror and the same result as a run with an Executor
\* attached on the same inputs.
C28_OptionalExecutor ==
    /\ ~conf.executor => Forwarded = <<>>
    /\ phase = "start" =>
          LET with == FullRunOn(conf.dryrun, TRUE)
              without == FullRunOn(conf.dryrun, FALSE)
          IN /\ Intents(without.calls) = Intents(with.calls)
             /\ without.mirror = with.mirror
             /\ without.result = with.result
             /\ \A i \in 1..Len(without.calls) : ~without.calls[i].forwarded
             /\ without.remote = remote
    /\ (phase = "done" /\ ~conf.executor) =>
          LET same == FullRunOn(conf.dryrun, FALSE)
          IN calls = same.calls /\ mirror = same.mirror /\ result = same.result
                /\ remote = same.remote

\* C28 witness: a finished run without Executor whose passes made calls and
\* changed the mirror while the live state stayed as it was.
C28_Witness ==
    /\ phase = "done" /\ ~conf.executor
    /\ Len(calls) > 2
    /\ mirror # remote
    /\ Forwarded = <<>>

\* C30: team pairs in the mirror. After the teams pass of any
\* reconciliation, for every declared team t the mirror contains a team
\* keyed slug(t) and a team keyed slug(t)+"-owners", whatever the live state
\* and the destructive flags were.
C30_TeamPairsInMirror ==
    phase \in {"repos", "rulesets", "commit", "rollback", "done"} =>
        \A t \in DOMAIN local.teams :
            /\ Slug(t) \in DOMAIN mirror.teams
            /\ (Slug(t) \o "-owners") \in DOMAIN mirror.teams

\* C30 witness: the teams pass has just created eng and eng-owners for the
\* declared team Eng (neither was live), with team deletion forbidden.
C30_Witness ==
    /\ phase = "repos"
    /\ "Eng" \in DOMAIN local.teams
    /\ ~conf.allowDestructiveTeams
    /\ \A k \in {"eng", "eng-owners"} :
          \E i \in 1..Len(calls) : calls[i].name = "CreateTeam" /\ calls[i].args[1] = k
    /\ {"eng", "eng-owners"} \subseteq DOMAIN mirror.teams

\* ---------------------------------------------------------------------
\* Everyone team, dangling references
\* ---------------------------------------------------------------------

\* the teams with access to repository k in the live state s
TeamsOn(s, k) == {t \in DOMAIN s.teamRepos : k \in DOMAIN s.teamRepos[t]}
\* the teams pass declares everyone with all declared users when enabled and
\* removes a live everyone when disabled; the repositories pass makes
\* everyone a reader of every declared repository when enabled
EveryoneHandled ==
    /\ phase = "teams" =>
          \A order \in Perms(DOMAIN local.teams) :
             IF conf.everyoneTeamEnabled
                THEN /\ "everyone" \in DOMAIN SlugTeams(order)
                     /\ SlugTeams(order)["everyone"].members = List(DOMAIN local.users)
                     /\ "everyone" \notin DOMAIN mirror.teams
                           => Cardinality(NewCallsOf("CreateTeam",
                                 <<"everyone", "everyone",
                                   MaterializedUsers(local.users)>>)) = 1
                     /\ NewCallsOf("DeleteTeam", <<"everyone">>) = {}
                     /\ "everyone" \in DOMAIN mirror'.teams
                ELSE /\ "everyone" \notin DOMAIN SlugTeams(order)
                     /\ "everyone" \in DOMAIN mirror.teams
                           => Cardinality(NewCallsOf("DeleteTeam", <<"everyone">>)) = 1
                     /\ \A i \in NewCallsNamed("CreateTeam") :
                           NewCalls[i].args[1] # "everyone"
    /\ phase = "repos" =>
          \A r \in DOMAIN local.repos :
             /\ BagIn("everyone", DeclaredRepo(r).readers) <=> conf.everyoneTeamEnabled
             /\ ~BagIn("everyone", DeclaredRepo(r).writers)
             /\ (conf.everyoneTeamEnabled /\ "everyone" \notin TeamsOn(mirror, Slug(r)))
                   => /\ "everyone" \in TeamsOn(mirror', Slug(r))
                      /\ mirror'.teamRepos["everyone"][Slug(r)] = "READ"
             /\ ~conf.everyoneTeamEnabled
                   => \A i \in RepoCallsAbout(Slug(r)) :
                         /\ NewCalls[i].name = "CreateRepository"
                               => "everyone" \notin NewCalls[i].args[4]
                         /\ NewCalls[i].name = "UpdateRepositoryAddTeamAccess"
                               => NewCalls[i].args[2] # "everyone"

\* C31: everyone team. With everyoneTeamEnabled the declared team set
\* contains a team everyone whose members are all declared users, and every
\* declared repository's reader set contains everyone; without it neither
\* is added, so a live everyone team is handled as a team to remove.
C31_EveryoneTeam == [][EveryoneHandled]_vars

\* C31 witness: with the everyone team enabled a run has created the team
\* everyone and given it read access to a declared repository.
C31_Witness ==
    /\ phase \in {"rulesets", "commit"}
    /\ conf.everyoneTeamEnabled
    /\ \E i \in 1..Len(calls) :
          calls[i].name = "CreateTeam" /\ calls[i].args[1] = "everyone"
    /\ \E r \in DOMAIN local.repos :
          /\ "everyone" \in TeamsOn(mirror, Slug(r))
          /\ mirror.teamRepos["everyone"][Slug(r)] = "READ"

\* the declared team member names no declared user carries
DanglingMembers ==
    UNION {local.teams[t].members \cup local.teams[t].owners : t \in DOMAIN local.teams}
       \ DOMAIN local.users
\* the declared external reader and writer names no external user carries
DanglingExternals ==
    UNION {local.repos[r].externalUserReaders \cup local.repos[r].externalUserWriters :
              r \in DOMAIN local.repos}
       \ DOMAIN local.externalUsers
\* what a dangling reference would leave in an argument
Leftovers == DanglingMembers \cup DanglingExternals \cup {ZeroString}

\* C32: dangling references are dropped silently. A declared team member
\* name with no declared-user entry, or a declared external reader or writer
\* name with no external-user entry, causes no error and no Rollback (the
\* only error of a run is the one of the ruleset configuration), and never
\* appears, by name or as an empty identifier, in the arguments of
\* CreateTeam, UpdateTeamAddMember or UpdateRepositorySetExternalUser.
C32_DanglingDropped ==
    /\ result # NoErr => (result = RulesetsErr /\ remote.enterprise)
    /\ \A i \in 1..Len(calls) :
          /\ calls[i].name = "Rollback" => calls[i].args = <<RulesetsErr>>
          /\ calls[i].name = "CreateTeam" => calls[i].args[3] \cap Leftovers = {}
          /\ calls[i].name = "UpdateTeamAddMember" => calls[i].args[2] \notin Leftovers
          /\ calls[i].name = "UpdateRepositorySetExternalUser"
                => calls[i].args[2] \notin Leftovers

\* C32 witness: a run has committed although a declared repository names an
\* external user without entry next to a known one, whose identifier was set.
C32_Witness ==
    /\ phase = "done" /\ result = NoErr
    /\ DanglingExternals # {}
    /\ \E i \in 1..Len(calls) :
          calls[i].name = "UpdateRepositorySetExternalUser" /\ calls[i].args[2] = "gh-xu"
    /\ calls[Len(calls)].name = "Commit"

\* a second witness of C32 on the teams side: a team declared with a member
\* nobody declared has been created with the known members only
C32_TeamCase ==
    /\ phase = "done" /\ result = NoErr
    /\ DanglingMembers # {}
    /\ \E i \in 1..Len(calls) : calls[i].name = "CreateTeam" /\ calls[i].args[3] # {}

\* ---------------------------------------------------------------------
\* Failures of the Executor inside a callback
\* ---------------------------------------------------------------------

\* the calls a teams or repositories callback forwarded to the Executor. The
\* mediator methods call the Executor as a statement and return nothing, and
\* the callbacks return nothing: whether the Executor failed on such a call
\* is not an input of anything the reconciliator does afterwards, so each of
\* these calls is one on which the Executor may have failed.
ExecutorCalls ==
    {i \in 1..Len(calls) : calls[i].forwarded /\ calls[i].name \in TeamOps \cup RepoOps}
\* two calls made while handling the same key of the same pass
SameCallback(a, b) == PassOf(a.name) = PassOf(b.name) /\ a.args[1] = b.args[1]

\* C34: callback errors abort the pass. Whichever forwarded call of a
\* callback the Executor fails on, the error propagates immediately: no
\* call follows for a later key of that pass or for a later pass, the only
\* call that follows the callback is Rollback, and the run returns an error.
C34_CallbackErrorsAbort ==
    /\ \A i \in ExecutorCalls : \A j \in (i + 1)..Len(calls) :
          calls[j].name = "Rollback" \/ SameCallback(calls[i], calls[j])
    /\ (phase = "done" /\ ExecutorCalls # {}) => result # NoErr

\* ---------------------------------------------------------------------
\* Change of a team's level of access
\* ---------------------------------------------------------------------

\* the level declared for team t on the declared repository l
DeclaredLevel(l, t) ==
    IF BagIn(t, l.writers) THEN "WRITE" ELSE IF BagIn(t, l.readers) THEN "READ" ELSE "-"
\* the calls of the pass about the access of team t to repository k
AccessCalls(k, t) ==
    {i \in RepoCallsAbout(k) :
        /\ NewCalls[i].name \in {"UpdateRepositoryAddTeamAccess",
                                 "UpdateRepositoryUpdateTeamAccess",
                                 "UpdateRepositoryRemoveTeamAccess"}
        /\ NewCalls[i].args[2] = t}
\* team t holds level lvl on repository k in the live state s
Holds(s, k, t, lvl) == t \in TeamsOn(s, k) /\ s.teamRepos[t][k] = lvl
\* the repositories pass on a team that is live with one level and declared
\* with the other: the last call about the team is not its removal, and the
\* mirror (and the live state a real run applied its calls to) holds the
\* team with the declared level
LevelChangeConverges ==
    phase = "repos" =>
        \A k \in CommonRepos : \A t \in TeamsOn(mirror, k) :
            LET lvl == DeclaredLevel(DeclaredLiveRepos[k], t)
            IN (lvl # "-" /\ mirror.teamRepos[t][k] # lvl) =>
                  /\ AccessCalls(k, t) # {}
                  /\ \A i \in AccessCalls(k, t) :
                        (\A j \in AccessCalls(k, t) : j <= i)
                           => NewCalls[i].name # "UpdateRepositoryRemoveTeamAccess"
                  /\ Holds(mirror', k, t, lvl)
                  /\ (conf.executor /\ ~conf.dryrun) => Holds(remote', k, t, lvl)

\* C35: team permission change converges in one run. When a team is live
\* as writer and declared as reader of a repository, or live as reader and
\* declared as writer, the calls of the repositories pass about that team do
\* not end with the removal of its access, and after the pass the mirror and
\* a faithfully applied remote hold the team with the declared level.
C35_PermissionChangeConverges == [][LevelChangeConverges]_vars

\* ---------------------------------------------------------------------
\* Mirror and remote
\* ---------------------------------------------------------------------

\* C36: the mirror tracks the remote. With an Executor that applies every
\* forwarded call, when a Reconciliate run has ended the mirror's users,
\* teams, repositories and accesses are those of the remote, for every
\* setting of the destructive flags, and no user, team or repository
\* operation was applied to the mirror without being forwarded.
C36_MirrorTracksRemote ==
    (conf.executor /\ ~conf.dryrun) =>
        /\ phase = "done" =>
              /\ mirror.users = remote.users
              /\ mirror.teams = remote.teams
              /\ mirror.repos = remote.repos
              /\ mirror.teamRepos = remote.teamRepos
        /\ \A i \in 1..Len(calls) :
              (calls[i].name \in UserOps \cup TeamOps \cup RepoOps /\ calls[i].mirrored)
                 => calls[i].forwarded
====
